---- MODULE Spec2Model ----
(***************************************************************************)
(* heyhr-api: the job lifecycle (the jobs router), the candidate apply     *)
(* route (the candidate router) and the persistence accessors (db.js),     *)
(* as a state machine.                                                     *)
(*                                                                         *)
(* Spec serialises the requests of the jobs router: one action per         *)
(* handler, run from its first statement to its response; the notification *)
(* block a handler detaches runs later, in an action of its own.           *)
(*                                                                         *)
(* SpecApply interleaves apply requests: the apply handler is split at its *)
(* awaited database calls (the read of the job, the insert), and the owner *)
(* of the job may create, close, reopen and delete between the two.        *)
(*                                                                         *)
(* SpecNotify and SpecStatus add the detached notification inserts, under  *)
(* weak fairness; SpecDispatch lets those inserts fail; SpecOwner and      *)
(* SpecRead add the requests of users who do not own the row they name;    *)
(* SpecAuth puts the bearer-token gates and /auth/refresh in front.        *)
(*                                                                         *)
(* SpecCascade follows a delete through the foreign keys; SpecBrowse has   *)
(* the reads that need no token. SpecEdit, SpecPublish and SpecRegister    *)
(* split PATCH, publish and register at their awaits; SpecSession follows  *)
(* the refresh tokens of a client; SpecList lists notifications as they    *)
(* are created and read; SpecSeed runs the seed script on the database;    *)
(* SpecPdf applies the PDF extractor to bounded documents.                 *)
(***************************************************************************)
EXTENDS Integers, Sequences, FiniteSets, Bags, TLC

\* ---------------------------------------------------------------- bounds
MaxJobs == 1
MaxInflight == 2
MaxTasks == 2
MaxNotifs == 2
MaxInterviews == 1
\* lines of an uploaded document
MaxLines == 2

\* ------------------------------------------------------------- constants
Recruiters == {1, 2}
Candidates == {3}
\* every candidate account: candidate 4 signs in and reads, and applies to nothing
Users == Recruiters \cup Candidates \cup {4}
JobIds == 1 .. MaxJobs

Absent == "absent"
\* status values a request body can carry (Absent: the key is missing)
StatusInputs == {Absent, "DRAFT", "PUBLISHED", "CLOSED", "ARCHIVED"}
\* the bodies of a PATCH: a status, a title ("" fails z.string().min(1))
PatchBodies == [status : {Absent, "DRAFT", "PUBLISHED", "ARCHIVED"}, title : {Absent, "T2", ""}]

NoJob == [recruiter_id |-> 0, title |-> "", status |-> "none"]
\* getApplicationDetail / getNotificationById returning null
NoRow == [kind |-> "null"]

\* the values of status a PATCH of an application can carry
AppStatusInputs == {Absent, "PASSED", "FAILED", "HIRED"}
\* scheduled_at of an interview request ("" fails z.string().min(1))
ScheduledAtInputs == {Absent, "", "2030-01-01 10:00"}
\* values CURRENT_TIMESTAMP takes
Times == {1, 2}
\* ids the requests name: one application per job and candidate, one
\* notification per insert
AppIds == 1 .. MaxJobs * Cardinality(Candidates)
NotifIds == 1 .. MaxNotifs
\* the body of a response that is not modelled
NoBody == [kind |-> "none"]
NoResp == [op |-> "none", code |-> 0, body |-> NoBody]
\* a rejected promise no handler was attached to when the event loop turned
\* read_at IS NULL
NULL == 0

\* utils/password.js: hashPassword, and what verifyPassword accepts
hashPassword(password) == <<"hash", password>>
verifyPassword(password, password_hash) == password_hash = hashPassword(password)

\* the password of the registered accounts, and the one a user changes to
DEFAULT_PASSWORD == "Passw0rd!"
Passwords == {DEFAULT_PASSWORD, "N3wPassw0rd!"}

User(email, role, password) ==
    [email |-> email, role |-> role, password_hash |-> hashPassword(password)]

\* the accounts the requests of Users belong to, by id
Accounts ==
    <<User("rec1@heyhr.test", "RECRUITER", DEFAULT_PASSWORD),
      User("rec2@heyhr.test", "RECRUITER", DEFAULT_PASSWORD),
      User("cand1@heyhr.test", "CANDIDATE", DEFAULT_PASSWORD),
      User("cand2@heyhr.test", "CANDIDATE", DEFAULT_PASSWORD)>>

VARIABLES
    jobs,           \* table jobs: id -> row
    nextJobId,      \* AUTO_INCREMENT of jobs
    applications,   \* table applications: id -> row
    nextAppId,      \* AUTO_INCREMENT of applications
    notifications,  \* table notifications, in insertion order
    interviews,     \* table interviews, in insertion order
    pending,        \* bag of requests suspended at an await
    tasks,          \* bag of detached createNotification calls in flight
    last,           \* what the latest step let out: a response (code 0: none)
                    \* or an unhandled rejection
    users,          \* table users, in insertion order
    retired         \* history: the refresh tokens a successful refresh or
                    \* change-password has superseded (the server keeps none)

vars == <<jobs, nextJobId, applications, nextAppId, notifications, interviews, pending, tasks, last,
          users, retired>>

\* a request suspended at an await, with the locals it resumes with
Req(op, user, job, recruiter_id) ==
    [op |-> op, user |-> user, job |-> job, recruiter_id |-> recruiter_id]

Resp(op, code) == [op |-> op, code |-> code, body |-> NoBody]

RespBody(op, code, body) == [op |-> op, code |-> code, body |-> body]

One(x) == SetToBag({x})

\* ------------------------------------------------------------- db.js
getJobById(id) == IF id \in DOMAIN jobs THEN jobs[id] ELSE NoJob

createJob(job) == jobs @@ (nextJobId :> job)

\* variant: the status column is written by every UPDATE, a missing
\* patch.status being written as PUBLISHED
updateJobRow_statusAlways(row, upd) ==
    [row EXCEPT !.title = IF upd.title # Absent THEN upd.title ELSE @,
                !.status = IF upd.status # Absent THEN upd.status ELSE "PUBLISHED"]

\* UPDATE jobs SET ... WHERE id = :id ; upd.status / upd.title may be Absent
updateJobRow(row, upd) ==
    [row EXCEPT !.title = IF upd.title # Absent THEN upd.title ELSE @,
                !.status = IF upd.status # Absent THEN upd.status ELSE @]

updateJob(id, upd) ==
    IF id \in DOMAIN jobs
    THEN [jobs EXCEPT ![id] = updateJobRow(@, upd)]
    ELSE jobs

closeJob(id) ==
    IF id \in DOMAIN jobs THEN [jobs EXCEPT ![id].status = "DRAFT"] ELSE jobs

reopenJob(id) ==
    IF id \in DOMAIN jobs THEN [jobs EXCEPT ![id].status = "PUBLISHED"] ELSE jobs

deleteJob(id) == [j \in DOMAIN jobs \ {id} |-> jobs[j]]

\* ON DELETE CASCADE of fk_app_job
cascadeApplications(id) ==
    [a \in {x \in DOMAIN applications : applications[x].job_id # id} |-> applications[a]]

\* variant: interviews has no foreign key on application_id
cascadeInterviews_none(id) == interviews

\* ON DELETE CASCADE of fk_int_application, behind the cascade of fk_app_job
cascadeInterviews(id) ==
    SelectSeq(interviews, LAMBDA i : i.application_id \in DOMAIN cascadeApplications(id))

\* variant: the applications table has no unique key on the pair
uniq_app_job_candidate_missing(job_id, candidate_id) == FALSE

\* UNIQUE KEY uniq_app_job_candidate (job_id, candidate_id)
uniq_app_job_candidate(job_id, candidate_id) ==
    \E a \in DOMAIN applications :
        /\ applications[a].job_id = job_id
        /\ applications[a].candidate_id = candidate_id

\* outcome of INSERT INTO applications
createApplication(job_id, candidate_id) ==
    IF job_id \notin DOMAIN jobs THEN "ER_NO_REFERENCED_ROW"
    ELSE IF uniq_app_job_candidate(job_id, candidate_id) THEN "ER_DUP_ENTRY"
    ELSE "OK"

\* SELECT a.*, j.recruiter_id ... FROM applications a JOIN jobs j ... WHERE a.id = :id
getApplicationDetail(id) ==
    IF id \in DOMAIN applications /\ applications[id].job_id \in DOMAIN jobs
    THEN [kind |-> "application", id |-> id,
          application |-> applications[id],
          job |-> [id |-> applications[id].job_id,
                   recruiter_id |-> jobs[applications[id].job_id].recruiter_id]]
    ELSE NoRow

\* UPDATE applications SET status = :p_status WHERE id = :id ; no statement
\* when the patch sets nothing (score, tags and notes are not modelled)
updateApplication(id, patch) ==
    IF patch.status # Absent /\ id \in DOMAIN applications
    THEN [applications EXCEPT ![id].status = patch.status]
    ELSE applications

\* INSERT INTO interviews (application_id, scheduled_at, ...): status takes
\* its default
createInterview(application_id) ==
    Append(interviews, [application_id |-> application_id, status |-> "SCHEDULED"])

\* SELECT * FROM notifications WHERE id = :id, with read: !!row.read_at
getNotificationById(rows, id) ==
    IF id \in DOMAIN rows
    THEN [kind |-> "notification", id |-> id, user_id |-> rows[id].user_id,
          read_at |-> rows[id].read_at, read |-> rows[id].read_at # NULL]
    ELSE NoRow

\* variant: read_at is overwritten by every mark-read
markNotificationRead_overwrite(id, now) ==
    IF id \in DOMAIN notifications
    THEN [notifications EXCEPT ![id].read_at = now]
    ELSE notifications

\* UPDATE notifications SET read_at = COALESCE(read_at, CURRENT_TIMESTAMP) WHERE id = :id
markNotificationRead(id, now) ==
    IF id \in DOMAIN notifications
    THEN [notifications EXCEPT ![id].read_at = IF @ # NULL THEN @ ELSE now]
    ELSE notifications

\* the row of a notification; message and data are not modelled
Notif(user_id, type, title) ==
    [user_id |-> user_id, type |-> type, title |-> title]

\* a createNotification call in flight; `handled` tells whether a handler
\* (an enclosing await in a try, or Promise.allSettled) is attached to it
Task(n, handled) ==
    [user_id |-> n.user_id, type |-> n.type, title |-> n.title, handled |-> handled]

\* the latest timestamp the table holds (1 when it holds none): the clock
\* does not run backwards, and an insert is stamped with the time of the
\* latest stamp
StampOf(rows) ==
    LET stamps == {1} \cup {rows[i].created_at : i \in DOMAIN rows}
                      \cup {rows[i].read_at : i \in DOMAIN rows}
    IN CHOOSE m \in stamps : \A x \in stamps : x <= m


\* the row INSERT INTO notifications stores: read_at starts NULL,
\* created_at DEFAULT CURRENT_TIMESTAMP
Row(t) ==
    [user_id |-> t.user_id, type |-> t.type, title |-> t.title, read_at |-> NULL,
     created_at |-> StampOf(notifications)]

\* variant: the notification block is left out
detach_dropped(n) == tasks

\* (async () => { try { await createNotification(n) } catch { log } })()
detach(n) == tasks (+) One(Task(n, TRUE))

\* the notification blocks of apply that still wait for their sub-queries
NotifyBlocks == {r \in BagToSet(pending) : r.op = "notify"}

\* notification inserts in flight or still to be issued by a waiting block
Scheduled == BagCardinality(tasks) + BagCardinality([r \in NotifyBlocks |-> pending[r]])

\* a request that will issue n notification inserts is taken on only while
\* the inserts fit the bounds of the model
Room(n) ==
    /\ Scheduled + n <= MaxTasks
    /\ Len(notifications) + Scheduled + n <= MaxNotifs
Inflight == BagCardinality(pending) < MaxInflight

Init ==
    /\ jobs = <<>>
    /\ nextJobId = 1
    /\ applications = <<>>
    /\ nextAppId = 1
    /\ notifications = <<>>
    /\ interviews = <<>>
    /\ pending = EmptyBag
    /\ tasks = EmptyBag
    /\ last = NoResp
    /\ users = Accounts
    /\ retired = {}

\* ------------------------------------------------ POST /recruiter/jobs
\* variant: the create schema takes every value of the column's enum
JobCreateSchema_anyEnum(st) == st \in {"DRAFT", "PUBLISHED", "CLOSED"}

JobCreateSchema(st) == st \in {"DRAFT", "PUBLISHED"}

Create(u, st) ==
    IF ~JobCreateSchema(st)
    THEN /\ last' = Resp("create", 400)
         /\ UNCHANGED <<jobs, nextJobId, applications, nextAppId, notifications, interviews, pending, tasks, users, retired>>
    ELSE /\ nextJobId <= MaxJobs
         /\ jobs' = createJob([recruiter_id |-> u, title |-> "T1", status |-> st])
         /\ nextJobId' = nextJobId + 1
         \* job = await getJobById(id); if (job?.status === 'PUBLISHED') notify
         /\ IF jobs'[nextJobId].status = "PUBLISHED"
            THEN /\ Room(1)
                 /\ tasks' = detach(Notif(u, "JOB", "Job published"))
            ELSE tasks' = tasks
         /\ last' = Resp("create", 201)
         /\ UNCHANGED <<applications, nextAppId, notifications, interviews, pending, users, retired>>

\* --------------------------------------------- PATCH /recruiter/jobs/:id
\* variant: the status of a PATCH body is not validated
PatchStatusValid_any(st) == TRUE

PatchStatusValid(st) == st \in {"DRAFT", "PUBLISHED"}

\* variant: the non-draft guard does not look at the other keys
HasOtherKeys_never(b) == FALSE

\* Object.keys(req.body).some(key => key !== 'status')
HasOtherKeys(b) == b.title # Absent

\* statusUpdate && Object.keys(req.body).length === 1
StatusOnly(b) == b.status # Absent /\ b.title = Absent

\* the response code the handler settles on after reading `current`,
\* 0 when it goes on to updateJob
PatchDecision(current, u, b) ==
    IF current = NoJob THEN 404
    ELSE IF current.recruiter_id # u THEN 403
    ELSE IF b.status # Absent /\ ~PatchStatusValid(b.status) THEN 400
    ELSE IF current.status # "DRAFT" /\ HasOtherKeys(b) THEN 409
    \* JobUpdateDraftSchema: title is z.string().min(1)
    ELSE IF ~StatusOnly(b) /\ b.title = "" THEN 400
    ELSE 0

\* updateData: { status } alone, or the parsed fields with status added back
updateData(b) ==
    IF StatusOnly(b)
    THEN [status |-> b.status, title |-> Absent]
    ELSE [status |-> b.status, title |-> b.title]

Patch(u, id, b) ==
    /\ LET code == PatchDecision(getJobById(id), u, b)
       IN IF code # 0
          THEN /\ last' = Resp("patch", code)
               /\ jobs' = jobs
          ELSE /\ last' = Resp("patch", 200)
               /\ jobs' = updateJob(id, updateData(b))
    /\ UNCHANGED <<nextJobId, applications, nextAppId, notifications, interviews, pending, tasks, users, retired>>

\* ------------------------------------- POST /recruiter/jobs/:id/publish
\* variant: an already PUBLISHED job is published again
PublishDecision_republish(current, u) ==
    IF current = NoJob THEN 404
    ELSE IF current.recruiter_id # u THEN 403
    ELSE IF current.status \notin {"DRAFT", "PUBLISHED"} THEN 409
    ELSE 0

PublishDecision(current, u) ==
    IF current = NoJob THEN 404
    ELSE IF current.recruiter_id # u THEN 403
    ELSE IF current.status = "PUBLISHED" THEN 200
    ELSE IF current.status # "DRAFT" THEN 409
    ELSE 0

\* variant: the handler awaits createNotification before it responds
Publish_awaitsNotification(u, id) ==
    /\ LET code == PublishDecision(getJobById(id), u)
       IN IF code # 0
          THEN /\ last' = Resp("publish", code)
               /\ UNCHANGED <<jobs, notifications>>
          ELSE /\ Room(1)
               /\ jobs' = updateJob(id, [status |-> "PUBLISHED", title |-> Absent])
               /\ notifications' = Append(notifications, Row(Task(Notif(u, "JOB", "Job published"), TRUE)))
               /\ last' = Resp("publish", 200)
    /\ UNCHANGED <<nextJobId, applications, nextAppId, interviews, pending, tasks, users, retired>>

Publish(u, id) ==
    /\ LET code == PublishDecision(getJobById(id), u)
       IN IF code # 0
          THEN /\ last' = Resp("publish", code)
               /\ UNCHANGED <<jobs, tasks>>
          ELSE /\ Room(1)
               /\ jobs' = updateJob(id, [status |-> "PUBLISHED", title |-> Absent])
               /\ tasks' = detach(Notif(u, "JOB", "Job published"))
               /\ last' = Resp("publish", 200)
    /\ UNCHANGED <<nextJobId, applications, nextAppId, notifications, interviews, pending, users, retired>>

\* --------------------------------------- POST /recruiter/jobs/:id/close
Close(u, id) ==
    /\ LET current == getJobById(id)
           code == IF current = NoJob THEN 404
                   ELSE IF current.recruiter_id # u THEN 403
                   ELSE IF current.status # "PUBLISHED" THEN 400
                   ELSE 0
       IN IF code # 0
          THEN /\ last' = Resp("close", code)
               /\ jobs' = jobs
          ELSE /\ jobs' = closeJob(id)
               /\ last' = Resp("close", 204)
    /\ UNCHANGED <<nextJobId, applications, nextAppId, notifications, interviews, pending, tasks, users, retired>>

\* -------------------------------------- POST /recruiter/jobs/:id/reopen
Reopen(u, id) ==
    /\ LET current == getJobById(id)
           code == IF current = NoJob THEN 404
                   ELSE IF current.recruiter_id # u THEN 403
                   ELSE IF current.status # "DRAFT" THEN 400
                   ELSE 0
       IN IF code # 0
          THEN /\ last' = Resp("reopen", code)
               /\ jobs' = jobs
          ELSE /\ jobs' = reopenJob(id)
               /\ last' = Resp("reopen", 204)
    /\ UNCHANGED <<nextJobId, applications, nextAppId, notifications, interviews, pending, tasks, users, retired>>

\* ---------------------------------------- DELETE /recruiter/jobs/:id
Delete(u, id) ==
    /\ LET current == getJobById(id)
           code == IF current = NoJob THEN 404
                   ELSE IF current.recruiter_id # u THEN 403
                   ELSE 0
       IN IF code # 0
          THEN /\ last' = Resp("delete", code)
               /\ UNCHANGED <<jobs, applications, interviews>>
          ELSE /\ jobs' = deleteJob(id)
               /\ applications' = cascadeApplications(id)
               /\ interviews' = cascadeInterviews(id)
               /\ last' = Resp("delete", 204)
    /\ UNCHANGED <<nextJobId, nextAppId, notifications, pending, tasks, users, retired>>

\* --------------------------------------- POST /candidate/applications
\* variant: the status of the job is not looked at
ApplyDecision_anyStatus(job) == IF job = NoJob THEN 404 ELSE 0

ApplyDecision(job) ==
    IF job = NoJob \/ job.status # "PUBLISHED" THEN 404 ELSE 0

\* variant: the duplicate-key error is not recognised
IsDupEntry_never(e) == FALSE

\* e.code === 'ER_DUP_ENTRY' || /Duplicate entry/i.test(e.sqlMessage)
IsDupEntry(e) == e = "ER_DUP_ENTRY"

\* job = await getJobById(job_id), and the status check
ApplyRead(c, id) ==
    /\ Inflight
    /\ LET job == getJobById(id)
       IN IF ApplyDecision(job) # 0
          THEN /\ last' = Resp("apply", ApplyDecision(job))
               /\ pending' = pending
          \* the request keeps its snapshot of job.recruiter_id
          ELSE /\ last' = NoResp
               /\ pending' = pending (+) One(Req("apply", c, id, job.recruiter_id))
    /\ UNCHANGED <<jobs, nextJobId, applications, nextAppId, notifications, interviews, tasks, users, retired>>

\* await createApplication(...), the detached notification block, the response
ApplyInsert(r) ==
    /\ BagIn(r, pending)
    /\ r.op = "apply"
    /\ LET e == createApplication(r.job, r.user)
       IN IF e = "OK"
          THEN /\ Room(2)
               /\ applications' = applications @@
                      (nextAppId :> [job_id |-> r.job, candidate_id |-> r.user, status |-> "APPLIED"])
               /\ nextAppId' = nextAppId + 1
               \* the block runs up to its first await: the candidate's insert
               \* is issued, its promise only pushed on `tasks`
               /\ tasks' = tasks (+) One(Task(Notif(r.user, "APPLICATION", "Application received"), FALSE))
               /\ pending' = (pending (-) One(r))
                                (+) One(Req("notify", r.user, r.job, r.recruiter_id))
               /\ last' = Resp("apply", 201)
          ELSE /\ last' = Resp("apply", IF IsDupEntry(e) THEN 409 ELSE 500)
               /\ pending' = pending (-) One(r)
               /\ UNCHANGED <<applications, nextAppId, tasks>>
    /\ UNCHANGED <<jobs, nextJobId, notifications, interviews, users, retired>>

\* the notification block of apply resumes after countApplicationsByJob and
\* listApplicationsByJob (a failure of either is swallowed and only changes
\* the message and the data), issues the recruiter's insert and awaits
\* Promise.allSettled(tasks)
\* variant: a failure of countApplicationsByJob ends the block
ApplyNotify_countAborts(r, countOk, listOk) ==
    /\ BagIn(r, pending)
    /\ r.op = "notify"
    /\ pending' = pending (-) One(r)
    /\ LET mine == Task(Notif(r.user, "APPLICATION", "Application received"), FALSE)
           settled == IF BagIn(mine, tasks)
                      THEN (tasks (-) One(mine)) (+) One([mine EXCEPT !.handled = TRUE])
                      ELSE tasks
       IN tasks' = IF countOk
                   THEN settled (+) One(Task(Notif(r.recruiter_id, "APPLICATION", "New application"), TRUE))
                   ELSE settled
    /\ last' = NoResp
    /\ UNCHANGED <<jobs, nextJobId, applications, nextAppId, notifications, interviews, users, retired>>

ApplyNotify(r, countOk, listOk) ==
    /\ BagIn(r, pending)
    /\ r.op = "notify"
    /\ pending' = pending (-) One(r)
    /\ LET mine == Task(Notif(r.user, "APPLICATION", "Application received"), FALSE)
           settled == IF BagIn(mine, tasks)
                      THEN (tasks (-) One(mine)) (+) One([mine EXCEPT !.handled = TRUE])
                      ELSE tasks
       IN tasks' = settled (+) One(Task(Notif(r.recruiter_id, "APPLICATION", "New application"), TRUE))
    /\ last' = NoResp
    /\ UNCHANGED <<jobs, nextJobId, applications, nextAppId, notifications, interviews, users, retired>>

\* ------------------------------------ PATCH /recruiter/applications/:id
\* the applications.status ENUM, optional
PatchSchema(b) == b.status \in {"APPLIED", "PASSED", "FAILED"} \cup {Absent}

\* variant: the owner of the job is not compared with the caller
ApplicationDecision_anyRecruiter(detail, u) ==
    IF detail = NoRow THEN 404 ELSE 0

ApplicationDecision(detail, u) ==
    IF detail = NoRow THEN 404
    ELSE IF detail.job.recruiter_id # u THEN 403
    ELSE 0

PatchApplication(u, id, b) ==
    /\ LET detail == getApplicationDetail(id)
           code == ApplicationDecision(detail, u)
       IN IF code # 0
          THEN /\ last' = Resp("patchApplication", code)
               /\ applications' = applications
          ELSE IF ~PatchSchema(b)
          THEN /\ last' = Resp("patchApplication", 400)
               /\ applications' = applications
          ELSE /\ applications' = updateApplication(id, b)
               /\ last' = Resp("patchApplication", 200)
    /\ UNCHANGED <<jobs, nextJobId, nextAppId, notifications, interviews, pending, tasks, users, retired>>

\* ---------------------------- POST /recruiter/applications/:id/interviews
CreateInterview(u, id, at) ==
    /\ LET detail == getApplicationDetail(id)
           code == ApplicationDecision(detail, u)
       IN IF code # 0
          THEN /\ last' = Resp("createInterview", code)
               /\ UNCHANGED <<interviews, tasks>>
          \* CreateSchema: scheduled_at is z.string().min(1)
          ELSE IF at \in {Absent, ""}
          THEN /\ last' = Resp("createInterview", 400)
               /\ UNCHANGED <<interviews, tasks>>
          ELSE /\ Len(interviews) < MaxInterviews
               /\ Room(1)
               /\ interviews' = createInterview(id)
               /\ tasks' = detach(Notif(detail.application.candidate_id, "INTERVIEW", "Interview scheduled"))
               /\ last' = Resp("createInterview", 201)
    /\ UNCHANGED <<jobs, nextJobId, applications, nextAppId, notifications, pending, users, retired>>

\* ------------------------------------ GET /candidate/applications/:id
GetApplication(c, id) ==
    /\ LET detail == getApplicationDetail(id)
       IN last' = IF detail = NoRow THEN Resp("getApplication", 404)
                  ELSE IF detail.application.candidate_id # c THEN Resp("getApplication", 403)
                  ELSE RespBody("getApplication", 200, detail)
    /\ UNCHANGED <<jobs, nextJobId, applications, nextAppId, notifications, interviews, pending, tasks, users, retired>>

\* ------------ GET /candidate/notifications/:id, /recruiter/notifications/:id
NotificationDecision(notification, u) ==
    IF notification = NoRow THEN 404
    ELSE IF notification.user_id # u THEN 403
    ELSE 0

GetNotification(u, id) ==
    /\ LET notification == getNotificationById(notifications, id)
           code == NotificationDecision(notification, u)
       IN last' = IF code # 0 THEN Resp("getNotification", code)
                  ELSE RespBody("getNotification", 200, notification)
    /\ UNCHANGED <<jobs, nextJobId, applications, nextAppId, notifications, interviews, pending, tasks, users, retired>>

\* ------- POST /candidate/notifications/:id/read, /recruiter/notifications/:id/read
MarkRead(u, id, now) ==
    /\ LET code == NotificationDecision(getNotificationById(notifications, id), u)
       IN IF code # 0
          THEN /\ last' = Resp("markRead", code)
               /\ notifications' = notifications
          ELSE /\ notifications' = markNotificationRead(id, now)
               \* updated = await getNotificationById(id)
               /\ last' = RespBody("markRead", 200, getNotificationById(notifications', id))
    /\ UNCHANGED <<jobs, nextJobId, applications, nextAppId, interviews, pending, tasks, users, retired>>

\* ------------------------------------------- detached createNotification
\* the INSERT of a detached task runs; a failure is caught and logged
RunTask(t, ok) ==
    /\ BagIn(t, tasks)
    /\ tasks' = tasks (-) One(t)
    /\ IF ok
       THEN /\ notifications' = Append(notifications, Row(t))
            /\ last' = NoResp
       ELSE /\ notifications' = notifications
            \* the rejection goes to the handler attached to the promise; with
            \* none attached it leaves the block as an unhandled rejection
            /\ last' = IF t.handled THEN NoResp ELSE Resp("unhandledRejection", 0)
    /\ UNCHANGED <<jobs, nextJobId, applications, nextAppId, interviews, pending, users, retired>>

PendingReqs == BagToSet(pending)

Next ==
    \/ \E u \in Recruiters, st \in StatusInputs : Create(u, st)
    \/ \E u \in Recruiters, id \in JobIds, b \in PatchBodies : Patch(u, id, b)
    \/ \E u \in Recruiters, id \in JobIds : Publish(u, id)
    \/ \E u \in Recruiters, id \in JobIds : Close(u, id)
    \/ \E u \in Recruiters, id \in JobIds : Reopen(u, id)
    \/ \E u \in Recruiters, id \in JobIds : Delete(u, id)
    \/ \E t \in BagToSet(tasks), ok \in BOOLEAN : RunTask(t, ok)

Spec == Init /\ [][Next]_vars

\* the recruiter who posts the jobs candidates apply to; the other
\* recruiter's requests on those jobs are refused
Poster == 1

NextApply ==
    \/ \E st \in StatusInputs : Create(Poster, st)
    \/ \E u \in Recruiters, id \in JobIds : Close(u, id)
    \/ \E u \in Recruiters, id \in JobIds : Reopen(u, id)
    \/ \E u \in Recruiters, id \in JobIds : Delete(u, id)
    \/ \E c \in Candidates, id \in JobIds : ApplyRead(c, id)
    \/ \E r \in PendingReqs : ApplyInsert(r)
    \/ \E r \in PendingReqs, countOk, listOk \in BOOLEAN : ApplyNotify(r, countOk, listOk)
    \/ \E t \in BagToSet(tasks), ok \in BOOLEAN : RunTask(t, ok)

SpecApply == Init /\ [][NextApply]_vars

\* the notification inserts of SpecNotify all succeed and every pending one
\* is answered by the database; applies are taken one at a time
NextNotify ==
    \/ \E u \in Recruiters, st \in {"DRAFT", "PUBLISHED"} : Create(u, st)
    \/ \E u \in Recruiters, id \in JobIds : Publish(u, id)
    \/ \E u \in Recruiters, id \in JobIds :
           Patch(u, id, [status |-> "PUBLISHED", title |-> Absent])
    \/ \E u \in Recruiters, id \in JobIds : Close(u, id)
    \/ \E c \in Candidates, id \in JobIds : pending = EmptyBag /\ ApplyRead(c, id)
    \/ \E r \in PendingReqs : ApplyInsert(r)
    \/ \E r \in PendingReqs, countOk, listOk \in BOOLEAN : ApplyNotify(r, countOk, listOk)
    \/ \E t \in BagToSet(tasks) : RunTask(t, TRUE)

SpecNotify ==
    /\ Init
    /\ [][NextNotify]_vars
    /\ WF_vars(\E t \in BagToSet(tasks) : RunTask(t, TRUE))
    /\ WF_vars(\E r \in PendingReqs, countOk, listOk \in BOOLEAN : ApplyNotify(r, countOk, listOk))

\* SpecStatus: applications and the recruiters' changes of their status,
\* under the fairness of SpecNotify
NextStatus ==
    \/ \E st \in {"DRAFT", "PUBLISHED"} : Create(Poster, st)
    \/ \E id \in JobIds : Reopen(Poster, id)
    \/ \E c \in Candidates, id \in JobIds : pending = EmptyBag /\ ApplyRead(c, id)
    \/ \E r \in PendingReqs : ApplyInsert(r)
    \/ \E r \in PendingReqs, countOk, listOk \in BOOLEAN : ApplyNotify(r, countOk, listOk)
    \/ \E u \in Recruiters, id \in AppIds, b \in [status : AppStatusInputs] :
           PatchApplication(u, id, b)
    \/ \E t \in BagToSet(tasks) : RunTask(t, TRUE)

SpecStatus ==
    /\ Init
    /\ [][NextStatus]_vars
    /\ WF_vars(\E t \in BagToSet(tasks) : RunTask(t, TRUE))
    /\ WF_vars(\E r \in PendingReqs, countOk, listOk \in BOOLEAN : ApplyNotify(r, countOk, listOk))

\* SpecDispatch: the requests that detach a notification block, taken one at
\* a time, and the blocks and inserts they leave behind, which may fail
NextDispatch ==
    \/ \E st \in {"DRAFT", "PUBLISHED"} : Create(Poster, st)
    \/ \E id \in JobIds : Publish(Poster, id)
    \/ \E c \in Candidates, id \in JobIds : pending = EmptyBag /\ ApplyRead(c, id)
    \/ \E r \in PendingReqs : ApplyInsert(r)
    \/ \E r \in PendingReqs, countOk, listOk \in BOOLEAN : ApplyNotify(r, countOk, listOk)
    \/ \E id \in AppIds, at \in ScheduledAtInputs : CreateInterview(Poster, id, at)
    \/ \E t \in BagToSet(tasks), ok \in BOOLEAN : RunTask(t, ok)

SpecDispatch == Init /\ [][NextDispatch]_vars

\* the recruiter who owns nothing
Intruder == 2

\* the users who own nothing: their requests all name rows of somebody else
Strangers == {Intruder, 4}

\* SpecOwner: the Poster's jobs, their applications and notifications, and
\* the requests the Strangers make on them
NextOwner ==
    \/ \E st \in {"DRAFT", "PUBLISHED"} : Create(Poster, st)
    \/ \E c \in Candidates, id \in JobIds : pending = EmptyBag /\ ApplyRead(c, id)
    \/ \E r \in PendingReqs : ApplyInsert(r)
    \/ \E r \in PendingReqs, countOk, listOk \in BOOLEAN : ApplyNotify(r, countOk, listOk)
    \/ \E t \in BagToSet(tasks), ok \in BOOLEAN : RunTask(t, ok)
    \/ \E id \in JobIds, b \in {[status |-> "PUBLISHED", title |-> Absent],
                                [status |-> Absent, title |-> "T2"]} : Patch(Intruder, id, b)
    \/ \E id \in JobIds : Publish(Intruder, id)
    \/ \E id \in JobIds : Close(Intruder, id)
    \/ \E id \in JobIds : Reopen(Intruder, id)
    \/ \E id \in JobIds : Delete(Intruder, id)
    \/ \E id \in AppIds : PatchApplication(Intruder, id, [status |-> "PASSED"])
    \/ \E id \in AppIds : CreateInterview(Intruder, id, "2030-01-01 10:00")
    \/ \E id \in AppIds : GetApplication(4, id)
    \/ \E u \in Strangers, id \in NotifIds : GetNotification(u, id)
    \/ \E u \in Strangers, id \in NotifIds, now \in Times : MarkRead(u, id, now)

SpecOwner == Init /\ [][NextOwner]_vars

\* SpecRead: notifications come to exist and their users read them
NextRead ==
    \/ \E u \in Recruiters, st \in {"DRAFT", "PUBLISHED"} : Create(u, st)
    \/ \E u \in Recruiters, id \in JobIds : Publish(u, id)
    \/ \E u \in Recruiters, id \in JobIds : Close(u, id)
    \/ \E t \in BagToSet(tasks), ok \in BOOLEAN : RunTask(t, ok)
    \/ \E u \in Users, id \in NotifIds : GetNotification(u, id)
    \/ \E u \in Users, id \in NotifIds, now \in Times : MarkRead(u, id, now)

SpecRead == Init /\ [][NextRead]_vars

\* ------------------------------------------------------- utils/jwt.js
\* users.role of the accounts
roleOf(u) == IF u \in Recruiters THEN "RECRUITER" ELSE "CANDIDATE"

\* the environments the server runs in: JWT_SECRET and REFRESH_SECRET are
\* two keys, or the deployment sets both to the same key
Envs == {[JWT_SECRET |-> "k1", REFRESH_SECRET |-> "k2"],
         [JWT_SECRET |-> "k1", REFRESH_SECRET |-> "k1"]}

\* the lifetimes in clock ticks: an access token outlives fewer ticks than
\* a refresh token ('15m' and '7d')

\* the instants at which the tokens of the requests expire, and the time at
\* which the requests arrive: a token is expired or has a tick left
Clock == {2}

\* ACCESS_TTL, REFRESH_TTL
TTL(typ) == IF typ = "access" THEN 1 ELSE 2

\* jwt.sign(payload, secret, {subject, expiresIn})
jwtSign(typ, secret, sub, role, iat) ==
    [key |-> secret, typ |-> typ, sub |-> sub, role |-> role, iat |-> iat, exp |-> iat + TTL(typ)]

signAccessToken(env, sub, role, now) == jwtSign("access", env.JWT_SECRET, sub, role, now)

signRefreshToken(env, sub, role, now) == jwtSign("refresh", env.REFRESH_SECRET, sub, role, now)

\* the tokens a request can carry: signed with one of the two keys (in
\* every environment at least one of them is not the key a verification
\* uses), of either kind, for a recruiter or a candidate, expiring at either
\* instant
Tokens ==
    {jwtSign(typ, key, sub, roleOf(sub), exp - TTL(typ)) :
        typ \in {"access", "refresh"}, key \in {"k1", "k2"}, sub \in {1, 3}, exp \in {1, 3}}

\* no "Authorization: Bearer ..." header, no refresh cookie
NoToken == [typ |-> "none"]

\* what the Authorization header or the refresh cookie holds
TokenInputs == Tokens \cup {NoToken}

\* jwt.verify(token, secret) returns the payload: the signature is of that
\* key and the token is not expired; otherwise it throws
jwtVerify(token, secret, now) == token.key = secret /\ now < token.exp

\* variant: the type tag is not looked at
verifyAccessToken_anyTyp(env, token, now) ==
    jwtVerify(token, env.JWT_SECRET, now)

\* TRUE: the payload is returned; FALSE: it throws
verifyAccessToken(env, token, now) ==
    jwtVerify(token, env.JWT_SECRET, now) /\ token.typ = "access"

verifyRefreshToken(env, token, now) ==
    jwtVerify(token, env.REFRESH_SECRET, now) /\ token.typ = "refresh"

\* ------------------------------------ requireCandidate, requireRecruiter
\* the status the gate answers with, 0 when it calls next()
requireRole(required, env, token, now) ==
    IF token = NoToken THEN 401
    ELSE IF ~verifyAccessToken(env, token, now) THEN 401
    ELSE IF token.role # required THEN 403
    ELSE 0

\* a response that stores nothing (that of a gate: the handler is not called)
Answer(resp) ==
    /\ last' = resp
    /\ UNCHANGED <<jobs, nextJobId, applications, nextAppId, notifications, interviews, pending, tasks,
                   users, retired>>

\* POST /jobs behind requireRecruiter; req.user.id = Number(payload.sub)
AuthCreate(env, token, now, st) ==
    LET code == requireRole("RECRUITER", env, token, now)
    IN IF code # 0 THEN Answer(Resp("create", code)) ELSE Create(token.sub, st)

\* POST /jobs/:id/publish behind requireRecruiter
AuthPublish(env, token, now, id) ==
    LET code == requireRole("RECRUITER", env, token, now)
    IN IF code # 0 THEN Answer(Resp("publish", code)) ELSE Publish(token.sub, id)

\* POST /jobs/:id/close behind requireRecruiter
AuthClose(env, token, now, id) ==
    LET code == requireRole("RECRUITER", env, token, now)
    IN IF code # 0 THEN Answer(Resp("close", code)) ELSE Close(token.sub, id)

\* GET /candidate/notifications/:id behind requireCandidate
AuthGetNotification(env, token, now, id) ==
    LET code == requireRole("CANDIDATE", env, token, now)
    IN IF code # 0 THEN Answer(Resp("getNotification", code)) ELSE GetNotification(token.sub, id)

\* ------------------------------------------------------ POST /auth/refresh
\* variant: the cookie is set before the user is looked up
Refresh_cookieFirst(env, token, now, exists) ==
    /\ last' = IF token = NoToken THEN Resp("refresh", 401)
               ELSE IF ~verifyRefreshToken(env, token, now) THEN Resp("refresh", 401)
               ELSE IF ~exists
                    THEN RespBody("refresh", 401,
                             [accessToken |-> NoToken,
                              cookie |-> signRefreshToken(env, token.sub, roleOf(token.sub), now)])
               ELSE RespBody("refresh", 200,
                        [accessToken |-> signAccessToken(env, token.sub, roleOf(token.sub), now),
                         cookie |-> signRefreshToken(env, token.sub, roleOf(token.sub), now)])
    /\ UNCHANGED <<jobs, nextJobId, applications, nextAppId, notifications, interviews, pending, tasks, users, retired>>

\* token: the refresh cookie; exists: getUserById(Number(payload.sub)) finds
\* the user, whose id and role the new tokens carry
refreshResponse(env, token, now, exists) ==
    IF token = NoToken THEN Resp("refresh", 401)
    ELSE IF ~verifyRefreshToken(env, token, now) THEN Resp("refresh", 401)
    ELSE IF ~exists THEN Resp("refresh", 401)
    ELSE RespBody("refresh", 200,
             [accessToken |-> signAccessToken(env, token.sub, roleOf(token.sub), now),
              cookie |-> signRefreshToken(env, token.sub, roleOf(token.sub), now)])

Refresh(env, token, now, exists) ==
    /\ last' = refreshResponse(env, token, now, exists)
    /\ UNCHANGED <<jobs, nextJobId, applications, nextAppId, notifications, interviews, pending, tasks, users, retired>>

\* SpecAuth: requests that carry any token, to routes of each gate and to
\* /auth/refresh
NextAuth ==
    \/ \E env \in Envs, token \in TokenInputs, now \in Clock, st \in {"DRAFT", "PUBLISHED"} :
           AuthCreate(env, token, now, st)
    \/ \E env \in Envs, token \in TokenInputs, now \in Clock, id \in JobIds :
           AuthPublish(env, token, now, id)
    \/ \E env \in Envs, token \in TokenInputs, now \in Clock, id \in JobIds :
           AuthClose(env, token, now, id)
    \/ \E env \in Envs, token \in TokenInputs, now \in Clock, id \in NotifIds :
           AuthGetNotification(env, token, now, id)
    \/ \E t \in BagToSet(tasks), ok \in BOOLEAN : RunTask(t, ok)
    \/ \E env \in Envs, token \in TokenInputs, now \in Clock, exists \in BOOLEAN :
           Refresh(env, token, now, exists)

SpecAuth == Init /\ [][NextAuth]_vars

\* SpecCascade: the Poster's jobs with their applications and interviews;
\* one apply request at a time, interleaved with the Poster's close and delete
NextCascade ==
    \/ \E st \in {"DRAFT", "PUBLISHED"} : Create(Poster, st)
    \/ \E id \in JobIds : Close(Poster, id)
    \/ \E id \in JobIds : Delete(Poster, id)
    \/ \E c \in Candidates, id \in JobIds : pending = EmptyBag /\ ApplyRead(c, id)
    \/ \E r \in PendingReqs : ApplyInsert(r)
    \/ \E r \in PendingReqs, countOk, listOk \in BOOLEAN : ApplyNotify(r, countOk, listOk)
    \/ \E id \in AppIds : CreateInterview(Poster, id, "2030-01-01 10:00")
    \/ \E t \in BagToSet(tasks), ok \in BOOLEAN : RunTask(t, ok)

SpecCascade == Init /\ [][NextCascade]_vars

\* ------------------------------------------------- public reads of jobs
\* limit of a list request: a value of the query, or the default
DefaultLimit == 50

\* the ids of S, greatest first
RECURSIVE Descending(_)
Descending(S) ==
    IF S = {} THEN <<>>
    ELSE LET m == CHOOSE x \in S : \A y \in S : y <= x
         IN <<m>> \o Descending(S \ {m})

\* the first `limit` entries of a result (LIMIT :limit OFFSET 0)
Limited(rows, limit) ==
    IF Len(rows) <= limit THEN rows ELSE SubSeq(rows, 1, limit)

JobRows(ids) == [k \in DOMAIN ids |-> [id |-> ids[k], status |-> jobs[ids[k]].status,
                                       recruiter_id |-> jobs[ids[k]].recruiter_id]]

\* SELECT * FROM jobs WHERE status = 'PUBLISHED' ORDER BY created_at DESC LIMIT :limit
listPublishedJobs(limit) ==
    Limited(JobRows(Descending({id \in DOMAIN jobs : jobs[id].status = "PUBLISHED"})), limit)

\* variant: the status is left out of the WHERE clause
listPublishedJobsByRecruiter_anyStatus(recruiter_id, limit) ==
    Limited(JobRows(Descending({id \in DOMAIN jobs : jobs[id].recruiter_id = recruiter_id})), limit)

\* SELECT * FROM jobs WHERE recruiter_id = :recruiter_id AND status = 'PUBLISHED' ...
listPublishedJobsByRecruiter(recruiter_id, limit) ==
    Limited(JobRows(Descending({id \in DOMAIN jobs :
        jobs[id].recruiter_id = recruiter_id /\ jobs[id].status = "PUBLISHED"})), limit)

getUserById(id) == IF id \in DOMAIN users THEN users[id] ELSE NoRow

\* GET /candidate/jobs
ListJobs(limit) == Answer(RespBody("listJobs", 200, listPublishedJobs(limit)))

\* GET /candidate/jobs/:id
GetPublishedJob(id) ==
    LET job == getJobById(id)
    IN Answer(IF job = NoJob \/ job.status # "PUBLISHED"
              THEN Resp("getPublishedJob", 404)
              ELSE RespBody("getPublishedJob", 200, JobRows(<<id>>)))

\* GET /recruiter/:id/jobs
ListRecruiterJobs(id, limit) ==
    LET user == getUserById(id)
    IN Answer(IF user = NoRow \/ user.role # "RECRUITER"
              THEN Resp("listRecruiterJobs", 404)
              ELSE RespBody("listRecruiterJobs", 200, listPublishedJobsByRecruiter(id, limit)))

\* SpecBrowse: the recruiters' jobs through their statuses, and the reads
\* that need no token
NextBrowse ==
    \/ \E u \in Recruiters, st \in {"DRAFT", "PUBLISHED"} : Create(u, st)
    \/ \E u \in Recruiters, id \in JobIds : Publish(u, id)
    \/ \E u \in Recruiters, id \in JobIds : Close(u, id)
    \/ \E t \in BagToSet(tasks), ok \in BOOLEAN : RunTask(t, ok)
    \/ \E limit \in {1, DefaultLimit} : ListJobs(limit)
    \/ \E id \in JobIds : GetPublishedJob(id)
    \/ \E id \in 1 .. Len(Accounts) + 1, limit \in {1, DefaultLimit} : ListRecruiterJobs(id, limit)

SpecBrowse == Init /\ [][NextBrowse]_vars

\* ------------------- PATCH /recruiter/jobs/:id, one await at a time
\* a handler suspended at an await, with the locals it resumes with
Call(op, user, job, data) ==
    [op |-> op, user |-> user, job |-> job, data |-> data]

\* current = await getJobById(id), and every check made on `current`
PatchRead(u, id, b) ==
    /\ Inflight
    /\ LET code == PatchDecision(getJobById(id), u, b)
       IN IF code # 0
          THEN /\ last' = Resp("patch", code)
               /\ pending' = pending
          ELSE /\ last' = NoResp
               /\ pending' = pending (+) One(Call("patch", u, id, updateData(b)))
    /\ UNCHANGED <<jobs, nextJobId, applications, nextAppId, notifications, interviews, tasks, users, retired>>

\* result = await updateJob(id, updateData); job = await getJobById(id)
PatchWrite(r) ==
    /\ BagIn(r, pending)
    /\ r.op = "patch"
    /\ pending' = pending (-) One(r)
    /\ jobs' = updateJob(r.job, r.data)
    /\ last' = Resp("patch", 200)
    /\ UNCHANGED <<nextJobId, applications, nextAppId, notifications, interviews, tasks, users, retired>>

NextEdit ==
    \/ Create(Poster, "DRAFT")
    \* the bodies carry a title, a status, or both
    \/ \E id \in JobIds, b \in [status : {Absent, "DRAFT", "PUBLISHED"}, title : {Absent, "T2"}] :
          PatchRead(Poster, id, b)
    \/ \E r \in PendingReqs : PatchWrite(r)
    \/ \E id \in JobIds : Publish(Poster, id)
    \/ \E id \in JobIds : Close(Poster, id)
    \/ \E t \in BagToSet(tasks), ok \in BOOLEAN : RunTask(t, ok)

SpecEdit == Init /\ [][NextEdit]_vars

\* -------------- POST /recruiter/jobs/:id/publish, one await at a time
\* current = await getJobById(id), and every check made on `current`
PublishRead(u, id) ==
    /\ Inflight
    /\ LET code == PublishDecision(getJobById(id), u)
       IN IF code # 0
          THEN /\ last' = Resp("publish", code)
               /\ pending' = pending
          ELSE /\ last' = NoResp
               /\ pending' = pending (+) One(Call("publish", u, id, "updateJob"))
    /\ UNCHANGED <<jobs, nextJobId, applications, nextAppId, notifications, interviews, tasks, users, retired>>

\* await updateJob(id, { status: 'PUBLISHED' })
PublishUpdate(r) ==
    /\ BagIn(r, pending)
    /\ r.op = "publish" /\ r.data = "updateJob"
    /\ jobs' = updateJob(r.job, [status |-> "PUBLISHED", title |-> Absent])
    /\ pending' = (pending (-) One(r)) (+) One(Call("publish", r.user, r.job, "getJobById"))
    /\ UNCHANGED <<nextJobId, applications, nextAppId, notifications, interviews, tasks, last, users, retired>>

\* job = await getJobById(id), the detached notification, the response;
\* job.title of a job deleted meanwhile throws inside the detached block
PublishFinish(r) ==
    /\ BagIn(r, pending)
    /\ r.op = "publish" /\ r.data = "getJobById"
    /\ pending' = pending (-) One(r)
    /\ IF getJobById(r.job) = NoJob
       THEN tasks' = tasks
       ELSE /\ Room(1)
            /\ tasks' = detach(Notif(r.user, "JOB", "Job published"))
    /\ last' = Resp("publish", 200)
    /\ UNCHANGED <<jobs, nextJobId, applications, nextAppId, notifications, interviews, users, retired>>

\* jobs are created as drafts and no request returns one to DRAFT
NextPublish ==
    \/ \E u \in Recruiters : Create(u, "DRAFT")
    \/ \E u \in Recruiters, id \in JobIds :
          Patch(u, id, [status |-> Absent, title |-> "T2"])
    \/ \E u \in Recruiters, id \in JobIds : PublishRead(u, id)
    \/ \E r \in PendingReqs : PublishUpdate(r)
    \/ \E r \in PendingReqs : PublishFinish(r)
    \/ \E t \in BagToSet(tasks), ok \in BOOLEAN : RunTask(t, ok)

SpecPublish == Init /\ [][NextPublish]_vars

\* ------------------------------------------------- POST /auth/register
\* the addresses of the requests that z.string().email() accepts; two are
\* new, one is registered
ValidEmails == {"new1@heyhr.test", "new2@heyhr.test", "rec1@heyhr.test"}

\* SELECT * FROM users WHERE email = :email LIMIT 1 (the id, NULL if none)
getUserByEmail(email) ==
    IF \E i \in DOMAIN users : users[i].email = email
    THEN CHOOSE i \in DOMAIN users : users[i].email = email
    ELSE NULL

\* INSERT INTO users ..., refused by UNIQUE KEY uniq_users_email
createUser(row) ==
    IF getUserByEmail(row.email) # NULL THEN "ER_DUP_ENTRY" ELSE "OK"

\* the schema, existing = await getUserByEmail(email), the EmailTaken answer
RegisterRead(email, password, role) ==
    /\ Inflight
    \* RegisterSchema: email(), password min(8)
    /\ IF ~(email \in ValidEmails /\ Len(password) >= 8)
       THEN /\ last' = Resp("register", 400)
            /\ pending' = pending
       ELSE IF getUserByEmail(email) # NULL
       THEN /\ last' = Resp("register", 409)
            /\ pending' = pending
       ELSE /\ last' = NoResp
            /\ pending' = pending (+) One(Call("register", email, NULL, User(email, role, password)))
    /\ UNCHANGED <<jobs, nextJobId, applications, nextAppId, notifications, interviews, tasks, users, retired>>

\* await hashPassword, await createUser, the tokens and the response; any
\* error of the INSERT reaches the catch-all, which answers 500
RegisterInsert(r) ==
    /\ BagIn(r, pending)
    /\ r.op = "register"
    /\ pending' = pending (-) One(r)
    /\ IF createUser(r.data) = "OK"
       THEN /\ users' = Append(users, r.data)
            /\ last' = Resp("register", 200)
       ELSE /\ users' = users
            /\ last' = Resp("register", 500)
    /\ UNCHANGED <<jobs, nextJobId, applications, nextAppId, notifications, interviews, tasks, retired>>

NextRegister ==
    \/ \E email \in ValidEmails \cup {"not-an-email"}, password \in {DEFAULT_PASSWORD, "short"},
          role \in {"RECRUITER", "CANDIDATE"} :
          RegisterRead(email, password, role)
    \/ \E r \in PendingReqs : RegisterInsert(r)

SpecRegister == Init /\ [][NextRegister]_vars

\* ------------------------------- the session of a client: /auth/refresh
\* and /auth/change-password on one server
ServerEnv == [JWT_SECRET |-> "k1", REFRESH_SECRET |-> "k2"]

\* UPDATE users SET password_hash = :password_hash WHERE id = :id
updateUserPassword(id, password_hash) ==
    [users EXCEPT ![id].password_hash = password_hash]

\* POST /auth/refresh with the cookie `token`; the cookie of a successful
\* refresh is superseded by the one the response sets
SessionRefresh(token, now) ==
    /\ last' = refreshResponse(ServerEnv, token, now, getUserById(token.sub) # NoRow)
    /\ retired' = IF last'.code = 200 THEN retired \cup {token} ELSE retired
    /\ UNCHANGED <<jobs, nextJobId, applications, nextAppId, notifications, interviews, pending, tasks, users>>

\* token: the bearer token; cookie: the refresh cookie the client holds,
\* which res.clearCookie removes from the client. `code` is the status the
\* handler settles on, 0 when it goes on to updateUserPassword:
\* verifyAccessToken throws into the catch-all; ChangePasswordSchema asks
\* for min(1), min(8), min(8), new = repeat and new # current; the user is
\* looked up by getUserAuthById
ChangePassword(token, cookie, now, current, new, repeat) ==
    /\ LET code ==
               IF token = NoToken THEN 401
               ELSE IF ~verifyAccessToken(ServerEnv, token, now) THEN 500
               ELSE IF ~(/\ Len(current) >= 1
                         /\ Len(new) >= 8 /\ Len(repeat) >= 8
                         /\ new = repeat
                         /\ new # current) THEN 400
               ELSE IF token.sub \notin DOMAIN users THEN 401
               ELSE IF ~verifyPassword(current, users[token.sub].password_hash) THEN 401
               ELSE 0
       IN IF code # 0
          THEN /\ last' = Resp("change-password", code)
               /\ UNCHANGED <<users, retired>>
          ELSE /\ users' = updateUserPassword(token.sub, hashPassword(new))
               /\ retired' = retired \cup {cookie}
               /\ last' = Resp("change-password", 200)
    /\ UNCHANGED <<jobs, nextJobId, applications, nextAppId, notifications, interviews, pending, tasks>>

NextSession ==
    \/ \E token \in TokenInputs, now \in Clock :
          token.typ # "access" /\ SessionRefresh(token, now)
    \* the cookie is one this server has set for the user of the token
    \/ \E token \in TokenInputs, cookie \in Tokens, now \in Clock,
          current \in Passwords, new, repeat \in Passwords \cup {"short"} :
          /\ cookie.typ = "refresh" /\ cookie.key = ServerEnv.REFRESH_SECRET
          /\ token # NoToken => cookie.sub = token.sub
          /\ ChangePassword(token, cookie, now, current, new, repeat)

SpecSession == Init /\ [][NextSession]_vars

\* ------------------ GET /candidate/notifications, /recruiter/notifications
\* the users whose notifications are listed
ListUsers == {Poster, 3}

\* ORDER BY COALESCE(read_at, created_at) DESC, id DESC
RECURSIVE OrderedByKey(_)
OrderedByKey(S) ==
    IF S = {} THEN <<>>
    ELSE LET SortKey(id) == IF notifications[id].read_at # NULL
                            THEN notifications[id].read_at
                            ELSE notifications[id].created_at
             first == CHOOSE x \in S : \A y \in S :
                 \/ SortKey(y) < SortKey(x)
                 \/ SortKey(y) = SortKey(x) /\ y <= x
         IN <<first>> \o OrderedByKey(S \ {first})

\* SELECT * FROM notifications WHERE user_id = :user_id [AND read_at IS NULL]
\* ORDER BY ... LIMIT :limit OFFSET 0, and read: !!r.read_at
listNotificationsByUser(user_id, unread_only, limit) ==
    LET ids == OrderedByKey({id \in DOMAIN notifications :
                   /\ notifications[id].user_id = user_id
                   /\ unread_only => notifications[id].read_at = NULL})
    IN Limited([k \in DOMAIN ids |->
                   [id |-> ids[k], user_id |-> notifications[ids[k]].user_id,
                    created_at |-> notifications[ids[k]].created_at,
                    read_at |-> notifications[ids[k]].read_at,
                    read |-> notifications[ids[k]].read_at # NULL]], limit)

ListNotifications(u, unread_only) ==
    Answer(RespBody("listNotifications", 200, listNotificationsByUser(u, unread_only, DefaultLimit)))

\* createNotification(n) of some handler runs at the instant `now`
CreateNotification(n, now) ==
    /\ Len(notifications) + Scheduled < MaxNotifs
    /\ now >= StampOf(notifications)
    /\ notifications' = Append(notifications, [Row(n) EXCEPT !.created_at = now])
    /\ last' = NoResp
    /\ UNCHANGED <<jobs, nextJobId, applications, nextAppId, interviews, pending, tasks, users, retired>>

\* SpecList: notifications are created, read and listed as time passes
NextList ==
    \/ \E u \in ListUsers, now \in 1 .. 3 :
          CreateNotification(Notif(u, "JOB", "Job published"), now)
    \/ \E u \in ListUsers, id \in NotifIds, now \in 1 .. 3 :
          now >= StampOf(notifications) /\ MarkRead(u, id, now)
    \/ \E u \in ListUsers, unread_only \in BOOLEAN : ListNotifications(u, unread_only)

SpecList == Init /\ [][NextList]_vars

\* --------------------------------------------------- scripts/seed.js
\* db: the tables the script reads and writes, and the number of rows it
\* has created so far (its "Created ..." log lines)
\* the least id of a non-empty set of ids (LIMIT 1)
First(ids) == CHOOSE i \in ids : \A j \in ids : i <= j

ensureUser(db, email, role) ==
    LET existing == {i \in DOMAIN db.users : db.users[i].email = email}
    IN IF existing # {}
       THEN [db |-> db, id |-> First(existing)]
       ELSE [db |-> [db EXCEPT !.users = Append(@, User(email, role, DEFAULT_PASSWORD)),
                               !.created = @ + 1],
             id |-> Len(db.users) + 1]

\* variant: the lookup of ensureJob finds nothing
findJob_never(db, recruiter_id, title) == {}

\* SELECT id FROM jobs WHERE recruiter_id = :recruiter_id AND title = :title
findJob(db, recruiter_id, title) ==
    {id \in DOMAIN db.jobs :
        db.jobs[id].recruiter_id = recruiter_id /\ db.jobs[id].title = title}

ensureJob(db, recruiter_id, title, status) ==
    LET rows == findJob(db, recruiter_id, title)
    IN IF rows # {}
       THEN [db |-> db, id |-> First(rows)]
       ELSE [db |-> [db EXCEPT !.jobs = @ @@ (db.nextJobId :>
                                   [recruiter_id |-> recruiter_id, title |-> title, status |-> status]),
                               !.nextJobId = @ + 1,
                               !.created = @ + 1],
             id |-> db.nextJobId]

ensureApplication(db, job_id, candidate_id) ==
    LET rows == {a \in DOMAIN db.applications :
                    /\ db.applications[a].job_id = job_id
                    /\ db.applications[a].candidate_id = candidate_id}
    IN IF rows # {}
       THEN [db |-> db, id |-> First(rows)]
       ELSE [db |-> [db EXCEPT !.applications = @ @@ (db.nextAppId :>
                                   [job_id |-> job_id, candidate_id |-> candidate_id, status |-> "APPLIED"]),
                               !.nextAppId = @ + 1,
                               !.created = @ + 1],
             id |-> db.nextAppId]

ensureInterview(db, application_id, scheduled_at) ==
    IF \E k \in DOMAIN db.interviews :
           /\ db.interviews[k].application_id = application_id
           /\ db.interviews[k].scheduled_at = scheduled_at
    THEN db
    ELSE [db EXCEPT !.interviews = Append(@, [application_id |-> application_id,
                                              status |-> "SCHEDULED",
                                              scheduled_at |-> scheduled_at]),
                    !.created = @ + 1]

\* idempotent by user_id + title + type + message
ensureNotification(db, user_id, type, title, message) ==
    IF \E k \in DOMAIN db.notifications :
           /\ db.notifications[k].user_id = user_id
           /\ db.notifications[k].title = title
           /\ db.notifications[k].type = type
           /\ db.notifications[k].message = message
    THEN db
    ELSE [db EXCEPT !.notifications = Append(@, [user_id |-> user_id, type |-> type, title |-> title,
                                                 message |-> message, read_at |-> NULL,
                                                 created_at |-> StampOf(db.notifications)]),
                    !.created = @ + 1]

\* main(): the store the script leaves behind when it starts on `db`
main(db) ==
    LET rec1  == ensureUser(db, "rec1@heyhr.test", "RECRUITER")
        rec2  == ensureUser(rec1.db, "rec2@heyhr.test", "RECRUITER")
        cand1 == ensureUser(rec2.db, "cand1@heyhr.test", "CANDIDATE")
        cand2 == ensureUser(cand1.db, "cand2@heyhr.test", "CANDIDATE")
        job1  == ensureJob(cand2.db, rec1.id, "Software Engineer", "PUBLISHED")
        job2  == ensureJob(job1.db, rec1.id, "QA Engineer", "DRAFT")
        job3  == ensureJob(job2.db, rec2.id, "Data Analyst", "PUBLISHED")
        app1  == ensureApplication(job3.db, job1.id, cand1.id)
        app2  == ensureApplication(app1.db, job1.id, cand2.id)
        app3  == ensureApplication(app2.db, job3.id, cand2.id)
        int1  == ensureInterview(app3.db, app1.id, "2025-08-30 09:00:00")
        n1 == ensureNotification(int1, cand1.id, "APPLICATION", "Application received",
                  "Your application to Software Engineer was received.")
        n2 == ensureNotification(n1, cand1.id, "INTERVIEW", "Interview scheduled",
                  "Your interview for Software Engineer is scheduled at 2025-08-30 09:00:00.")
        n3 == ensureNotification(n2, cand2.id, "APPLICATION", "Application received",
                  "Your application to Software Engineer was received.")
        n4 == ensureNotification(n3, cand2.id, "APPLICATION", "Application received",
                  "Your application to Data Analyst was received.")
        n5 == ensureNotification(n4, rec1.id, "APPLICATION", "New application",
                  "cand1@heyhr.test applied to Software Engineer.")
        n6 == ensureNotification(n5, rec1.id, "APPLICATION", "New application",
                  "cand2@heyhr.test applied to Software Engineer.")
    IN ensureNotification(n6, rec2.id, "APPLICATION", "New application",
           "cand2@heyhr.test applied to Data Analyst.")

\* one run of the script, from initDB to pool.end
Seed ==
    /\ LET db == main([users |-> users, jobs |-> jobs, nextJobId |-> nextJobId,
                        applications |-> applications, nextAppId |-> nextAppId,
                        interviews |-> interviews, notifications |-> notifications,
                        created |-> 0])
       IN /\ users' = db.users
          /\ jobs' = db.jobs
          /\ nextJobId' = db.nextJobId
          /\ applications' = db.applications
          /\ nextAppId' = db.nextAppId
          /\ interviews' = db.interviews
          /\ notifications' = db.notifications
          /\ last' = RespBody("seed", 0, [created |-> db.created])
    /\ UNCHANGED <<pending, tasks, retired>>

\* the database before anything is registered or seeded
InitEmpty ==
    /\ jobs = <<>>
    /\ nextJobId = 1
    /\ applications = <<>>
    /\ nextAppId = 1
    /\ notifications = <<>>
    /\ interviews = <<>>
    /\ pending = EmptyBag
    /\ tasks = EmptyBag
    /\ last = NoResp
    /\ users = <<>>
    /\ retired = {}

\* SpecSeed: the script is run, again and again, on a database whose jobs
\* are closed, retitled and deleted and whose notifications are read
NextSeed ==
    \/ Seed
    \/ \E u \in Recruiters, id \in JobIds : Close(u, id)
    \/ \E u \in Recruiters, id \in JobIds : Patch(u, id, [status |-> Absent, title |-> "T2"])
    \/ \E u \in Recruiters, id \in JobIds : Delete(u, id)
    \/ \E u \in Users, id \in NotifIds, now \in Times : MarkRead(u, id, now)

SpecSeed == InitEmpty /\ [][NextSeed]_vars

\* ------------------------------------------------------- utils/pdf.js
\* The text of a document is a sequence of lines (normalizeLines: trimmed,
\* non-empty), a line a sequence of tokens: a header phrase at the start of
\* the line, the separator that directly follows it, words, numerals (runs
\* of digits) and dates (YYYY-MM-DD).
Tok(kind, text, digits) == [kind |-> kind, text |-> text, digits |-> digits]

\* the documents: up to MaxLines lines, each one of 'Job Title: Backend
\* Engineer', 'Location: Remote', 'Salary: 95', 'Start Date: 2025-01-01',
\* 'Salary', 'Backend Engineer', 'Team of 12'; `digits` of a date is its
\* first run of digits, the year
Docs ==
    LET DocLines ==
            {<<Tok("header", "Job Title", <<>>), Tok("sep", ":", <<>>),
               Tok("word", "Backend", <<>>), Tok("word", "Engineer", <<>>)>>,
             <<Tok("header", "Location", <<>>), Tok("sep", ":", <<>>), Tok("word", "Remote", <<>>)>>,
             <<Tok("header", "Salary", <<>>), Tok("sep", ":", <<>>), Tok("num", "", <<9, 5>>)>>,
             <<Tok("header", "Start Date", <<>>), Tok("sep", ":", <<>>),
               Tok("date", "2025-01-01", <<2, 0, 2, 5>>)>>,
             <<Tok("header", "Salary", <<>>)>>,
             <<Tok("word", "Backend", <<>>), Tok("word", "Engineer", <<>>)>>,
             <<Tok("word", "Team", <<>>), Tok("word", "of", <<>>), Tok("num", "", <<1, 2>>)>>}
    IN UNION {[1 .. n -> DocLines] : n \in 0 .. MaxLines}

\* an undefined value, and a defined one
Undefined == [defined |-> FALSE]
Some(v) == [defined |-> TRUE, value |-> v]
\* a || b
OrElse(a, b) == IF a.defined THEN a ELSE b

\* rx.test(line) for a header regex anchored at the start of the line
TestHeader(line, header) ==
    Len(line) >= 1 /\ line[1].kind = "header" /\ line[1].text = header

\* line.match(^...(?:rx)s*[:\-]s*(.+)$): the template literal turns \s into
\* the letter s, so the separator has to follow the header directly; the
\* value is the rest of the line, trimmed
RECURSIVE getInlineValue(_, _)
getInlineValue(lines, headerRegexes) ==
    IF headerRegexes = <<>> THEN Undefined
    ELSE LET hits == {i \in DOMAIN lines :
                         /\ TestHeader(lines[i], Head(headerRegexes))
                         /\ Len(lines[i]) >= 3
                         /\ lines[i][2].kind = "sep" /\ lines[i][2].text \in {":", "-"}}
         IN IF hits # {}
            THEN Some(Tail(Tail(lines[First(hits)])))
            ELSE getInlineValue(lines, Tail(headerRegexes))

\* the line after the first header line that has a line after it
getNextLineValue(lines, headerRegexes) ==
    LET hits == {i \in DOMAIN lines :
                    /\ \E k \in DOMAIN headerRegexes : TestHeader(lines[i], headerRegexes[k])
                    /\ i + 1 \in DOMAIN lines}
    IN IF hits # {} THEN Some(lines[First(hits) + 1]) ELSE Undefined

\* lines.join('\n')
RECURSIVE Join(_)
Join(lines) == IF lines = <<>> THEN <<>> ELSE Head(lines) \o Join(Tail(lines))

\* the digits from the start of `toks` up to the first non-digit, commas
\* and white space removed: a numeral runs on into the next token
RECURSIVE LeadingDigits(_)
LeadingDigits(toks) ==
    IF toks = <<>> \/ Head(toks).digits = <<>> THEN <<>>
    ELSE IF Head(toks).kind = "num" THEN Head(toks).digits \o LeadingDigits(Tail(toks))
    ELSE Head(toks).digits

\* the first run of digits of `toks`
RECURSIVE FirstDigitRun(_)
FirstDigitRun(toks) ==
    IF toks = <<>> THEN <<>>
    ELSE IF Head(toks).digits # <<>> THEN LeadingDigits(toks)
    ELSE FirstDigitRun(Tail(toks))

\* Number(m[1])
RECURSIVE Number(_)
Number(digits) ==
    IF digits = <<>> THEN 0
    ELSE 10 * Number(SubSeq(digits, 1, Len(digits) - 1)) + digits[Len(digits)]

\* str.replace(/[,\s]/g, '').match(/(\d{3,}|\d{1,2})(?:\.\d+)?/): the first
\* run of digits, whole
parseInteger(str) ==
    IF ~str.defined \/ str.value = <<>> THEN Undefined
    ELSE IF FirstDigitRun(str.value) = <<>> THEN Undefined
    ELSE Some(Number(FirstDigitRun(str.value)))

\* String(s).match(/(\d{4})[\/-](\d{2})[\/-](\d{2})/)
parseDateISO(s) ==
    IF ~s.defined THEN Undefined
    ELSE LET dates == {i \in DOMAIN s.value : s.value[i].kind = "date"}
         IN IF dates = {} THEN Undefined ELSE Some(s.value[First(dates)].text)

\* l.split(/\s+/).length: a separator is written onto its header
RECURSIVE WordCount(_)
WordCount(line) ==
    IF line = <<>> THEN 0
    ELSE WordCount(Tail(line)) +
         (IF Head(line).kind = "sep" THEN 0
          ELSE IF Head(line).text \in {"Job Title", "Start Date"} THEN 2
          ELSE 1)

\* the first line of two words or more that starts with no header word of
\* the blacklist
guessTitle(lines) ==
    LET hits == {i \in DOMAIN lines :
                    /\ \A h \in {"Job Title", "Location", "Salary"} : ~TestHeader(lines[i], h)
                    /\ WordCount(lines[i]) >= 2}
    IN IF hits # {} THEN Some(lines[First(hits)]) ELSE Undefined

\* suggested: the values by key; the keys left out (company_name, job_type,
\* the sections, the skills, the other dates, allow_international) are
\* undefined for every document of Docs.
\* Object.keys(suggested).forEach((k) => suggested[k] === undefined && delete suggested[k])
extractJobFieldsFromPdf(lines) ==
    LET suggested ==
    [title |-> OrElse(getInlineValue(lines, <<"Job Title">>),
                      OrElse(getNextLineValue(lines, <<"Job Title">>), guessTitle(lines))),
     location |-> OrElse(getInlineValue(lines, <<"Location">>),
                         getNextLineValue(lines, <<"Location">>)),
     \* detectRemote: /remote|hybrid|work\s*from\s*home/ ; /onsite\s*only/ is in no line
     remote_flexible |-> IF \E i \in DOMAIN Join(lines) : Join(lines)[i].text = "Remote"
                         THEN Some(TRUE) ELSE Undefined,
     salary |-> parseInteger(OrElse(OrElse(getInlineValue(lines, <<"Salary", "Compensation", "Pay">>),
                                           getNextLineValue(lines, <<"Salary", "Compensation", "Pay">>)),
                                    Some(Join(lines)))),
     commencement_date |-> parseDateISO(OrElse(getInlineValue(lines, <<"Start Date", "Commencement">>),
                                               getNextLineValue(lines, <<"Start Date", "Commencement">>))),
     other_details |-> Some([raw_text_preview |-> lines])]
    IN [k \in {key \in DOMAIN suggested : suggested[key].defined} |-> suggested[k].value]

\* a PDF whose text is `doc` is posted to /autofill
Upload(doc) == Answer(RespBody("upload", 0, doc))

\* POST /recruiter/jobs/autofill answers { suggested }
Autofill ==
    /\ last.op = "upload"
    /\ Answer(RespBody("autofill", 200, extractJobFieldsFromPdf(last.body)))

NextPdf ==
    \/ \E doc \in Docs : Upload(doc)
    \/ Autofill

SpecPdf == Init /\ [][NextPdf]_vars

\* ================================================================ claims
Owner(u, id) == id \in DOMAIN jobs /\ jobs[id].recruiter_id = u

Kept == DOMAIN jobs \cap DOMAIN jobs'

ApplicationsOf(apps, j, c) ==
    {a \in DOMAIN apps : apps[a].job_id = j /\ apps[a].candidate_id = c}

UniquePairs ==
    \A a, b \in DOMAIN applications :
        (/\ applications[a].job_id = applications[b].job_id
         /\ applications[a].candidate_id = applications[b].candidate_id) => a = b

SecondApplyConflicts ==
    \A r \in PendingReqs :
        (ApplyInsert(r) /\ ApplicationsOf(applications, r.job, r.user) # {})
            => (last' = Resp("apply", 409) /\ applications' = applications)

\* C1: in every reachable state there is at most one application per
\* (job_id, candidate_id) pair, and an apply whose pair already has a row
\* responds 409 and leaves the applications table as it was.
C1_AtMostOneApplication == []UniquePairs /\ [][SecondApplyConflicts]_vars

\* a second apply was answered 409 while the first application exists
C1_Witness ==
    /\ last = Resp("apply", 409)
    /\ \E j \in DOMAIN jobs, c \in Candidates : ApplicationsOf(applications, j, c) # {}

InsertSerialized ==
    \A r \in PendingReqs :
        (ApplyInsert(r) /\ r.job \in DOMAIN jobs) =>
            /\ last'.code \in {201, 409}
            /\ last'.code = 201 <=>
                   /\ ApplicationsOf(applications, r.job, r.user) = {}
                   /\ Cardinality(ApplicationsOf(applications', r.job, r.user)) = 1
            /\ last'.code = 409 => applications' = applications

\* C2: of the apply requests of one candidate for one job that have all
\* passed the status check before any of them inserts, the insert that finds
\* no row responds 201 and creates exactly one row, and every insert that
\* finds the row responds 409, never 500, and creates nothing (the job still
\* existing at the insert).
C2_ConcurrentApplySerialized == [][InsertSerialized]_vars

\* one of two interleaved applies has inserted and been answered 201 while
\* the other, having passed the status check earlier, still waits to insert
C2_Witness ==
    /\ last = Resp("apply", 201)
    /\ \E r \in PendingReqs :
           /\ r.op = "apply"
           /\ ApplicationsOf(applications, r.job, r.user) # {}

\* the handler answers with `code` and changes nothing else
Rejected(op, code) ==
    /\ last' = Resp(op, code)
    /\ UNCHANGED <<jobs, nextJobId, applications, nextAppId, notifications, interviews, pending, tasks,
                   users, retired>>

NonDraftPatchConflict ==
    \A u \in Recruiters, id \in JobIds, b \in PatchBodies :
        (/\ Owner(u, id) /\ jobs[id].status # "DRAFT"
         /\ b.title # Absent
         /\ Patch(u, id, b)) => Rejected("patch", 409)

\* C3 as stated: a PATCH by the owner of a non-DRAFT job whose body has a key
\* other than status is answered 409 and changes nothing.
C3_Original == [][NonDraftPatchConflict]_vars

NonDraftPatchRejected ==
    \A u \in Recruiters, id \in JobIds, b \in PatchBodies :
        (/\ Owner(u, id) /\ jobs[id].status # "DRAFT"
         /\ b.title # Absent
         /\ Patch(u, id, b))
            => Rejected("patch", IF b.status \in {Absent, "DRAFT", "PUBLISHED"} THEN 409 ELSE 400)

\* C3 amended: a PATCH by the owner of a non-DRAFT job whose body has a key
\* other than status changes nothing; it is answered 409, except that a body
\* that also carries an invalid status value is answered 400.
C3_NonDraftPatchRejected == [][NonDraftPatchRejected]_vars

\* a PATCH of a non-DRAFT job was answered 409 and the job kept its title
C3_Witness ==
    /\ last = Resp("patch", 409)
    /\ \E id \in DOMAIN jobs : jobs[id].status = "PUBLISHED" /\ jobs[id].title = "T1"

\* C4: in every reachable state the status of every job is one of DRAFT,
\* PUBLISHED, CLOSED.
C4_StatusInEnum == \A id \in DOMAIN jobs : jobs[id].status \in {"DRAFT", "PUBLISHED", "CLOSED"}

\* a PATCH has written a status and a title
C4_Witness ==
    /\ last = Resp("patch", 200)
    /\ \E id \in DOMAIN jobs : jobs[id].status = "PUBLISHED" /\ jobs[id].title = "T2"

StatusChangedBy(id, StatusPatch(_)) ==
    \E u \in Recruiters :
        \/ Publish(u, id)
        \/ Close(u, id)
        \/ Reopen(u, id)
        \/ \E b \in PatchBodies : Patch(u, id, b) /\ StatusPatch(b)

IsStatusAlone(b) == b.status # Absent /\ b.title = Absent
CarriesStatus(b) == b.status # Absent

StatusKept == \A id \in Kept : jobs'[id].status = jobs[id].status

\* the status changes only in a step of publish, close, reopen or a PATCH
\* that is a StatusPatch, and every other PATCH leaves it as it is
StatusChangesOnlyBy(StatusPatch(_)) ==
    /\ \A id \in Kept : jobs'[id].status # jobs[id].status => StatusChangedBy(id, StatusPatch)
    /\ \A u \in Recruiters, id \in JobIds, b \in PatchBodies :
           (~StatusPatch(b) /\ Owner(u, id) /\ Patch(u, id, b)) => StatusKept

C6_NoBackToDraft ==
    [][\A id \in Kept : jobs[id].status \in {"PUBLISHED", "CLOSED"} => jobs'[id].status # "DRAFT"]_vars

CloseAsSpecified ==
    \A u \in Recruiters, id \in JobIds :
        (Owner(u, id) /\ Close(u, id)) =>
            IF jobs[id].status = "PUBLISHED"
            THEN last'.code < 400 /\ jobs'[id].status = "CLOSED"
            ELSE last'.code >= 400 /\ jobs' = jobs

\* C7: close by the owner goes through exactly when the job is PUBLISHED and
\* then sets the status to CLOSED; on any other status it fails and leaves
\* the status unchanged.
C7_CloseSetsClosed == [][CloseAsSpecified]_vars

ReopenAsSpecified ==
    \A u \in Recruiters, id \in JobIds :
        (Owner(u, id) /\ Reopen(u, id)) =>
            IF jobs[id].status = "CLOSED"
            THEN last'.code < 400 /\ jobs'[id].status = "PUBLISHED"
            ELSE last'.code \in {400, 409} /\ jobs' = jobs

\* C8: reopen by the owner of a CLOSED job sets the status to PUBLISHED;
\* reopen of a job in any other status fails with 400 or 409 and leaves the
\* status unchanged.
C8_ReopenFromClosed == [][ReopenAsSpecified]_vars

PublishAsSpecified ==
    \A u \in Recruiters, id \in JobIds :
        (Owner(u, id) /\ Publish(u, id)) =>
            CASE jobs[id].status = "PUBLISHED" -> Rejected("publish", 200)
              [] jobs[id].status = "DRAFT" ->
                     /\ last' = Resp("publish", 200)
                     /\ jobs' = [jobs EXCEPT ![id].status = "PUBLISHED"]
              [] OTHER -> Rejected("publish", 409)

\* C9: publish by the owner of an already PUBLISHED job answers 200, changes
\* no table and starts no notification task; publish of a DRAFT job sets the
\* status to PUBLISHED and no other field; publish of a job in any other
\* status answers 409 and changes nothing.
C9_PublishIdempotent == [][PublishAsSpecified]_vars

\* publish of a PUBLISHED job was answered 200 and started no task
C9_Witness ==
    /\ last = Resp("publish", 200)
    /\ tasks = EmptyBag /\ notifications # <<>>
    /\ \E id \in DOMAIN jobs : jobs[id].status = "PUBLISHED"

CreateAsSpecified ==
    \A u \in Recruiters, st \in StatusInputs :
        Create(u, st) =>
            IF st \in {"DRAFT", "PUBLISHED"}
            THEN /\ last' = Resp("create", 201)
                 /\ DOMAIN jobs' = DOMAIN jobs \cup {nextJobId}
                 /\ nextJobId \notin DOMAIN jobs
                 /\ jobs'[nextJobId].status = st
                 /\ \A id \in DOMAIN jobs : jobs'[id] = jobs[id]
            ELSE Rejected("create", 400)

\* C10: a create request whose status is missing or not DRAFT or PUBLISHED
\* (CLOSED included) is answered 400 and inserts no job; an accepted create
\* inserts one job whose status is the requested one.
C10_CreateStatus == [][CreateAsSpecified]_vars

\* a job created as PUBLISHED holds that status and its create was answered 201
C10_Witness ==
    /\ last = Resp("create", 201)
    /\ \E id \in DOMAIN jobs : jobs[id].status = "PUBLISHED" /\ jobs[id].title = "T1"

ApplyRefused ==
    \A c \in Candidates, id \in JobIds :
        (/\ getJobById(id) = NoJob \/ getJobById(id).status # "PUBLISHED"
         /\ ApplyRead(c, id)) => Rejected("apply", 404)

\* C11: an apply for a job that does not exist or is not PUBLISHED is
\* answered 404, and it creates no application, suspends no request and
\* schedules no notification.
C11_ApplyNeedsPublished == [][ApplyRefused]_vars

\* an apply to a job that exists and is not PUBLISHED was answered 404
C11_Witness ==
    /\ last = Resp("apply", 404)
    /\ \E id \in DOMAIN jobs : jobs[id].status = "DRAFT"
    /\ applications = <<>> /\ tasks = EmptyBag /\ pending = EmptyBag

\* rows of the notifications table that hold notification n
RowsOf(n) ==
    Cardinality({i \in DOMAIN notifications :
        /\ notifications[i].user_id = n.user_id
        /\ notifications[i].type = n.type
        /\ notifications[i].title = n.title})

\* rows that hold n, and inserts of n in flight
OwedOf(n) == RowsOf(n) + CopiesIn(Task(n, TRUE), tasks) + CopiesIn(Task(n, FALSE), tasks)

JobPublished(u) == Notif(u, "JOB", "Job published")

\* every notification insert issued so far ends as a row
Delivered(n) == \A k \in 1 .. MaxNotifs : (OwedOf(n) >= k) ~> (RowsOf(n) >= k)

EntersPublished(id) ==
    /\ id \in DOMAIN jobs'
    /\ jobs'[id].status = "PUBLISHED"
    /\ id \in DOMAIN jobs => jobs[id].status # "PUBLISHED"

NotifiesOwner(id) ==
    /\ \A u \in Recruiters :
           jobs'[id].recruiter_id = u => OwedOf(JobPublished(u))' = OwedOf(JobPublished(u)) + 1
    /\ notifications' = notifications

PublishedByCreateOrPublish(id) ==
    \/ \E u \in Recruiters : Create(u, "PUBLISHED") /\ id = nextJobId
    \/ \E u \in Recruiters : Owner(u, id) /\ jobs[id].status = "DRAFT" /\ Publish(u, id)

PublishedOtherwise(id) ==
    EntersPublished(id) /\ ~PublishedByCreateOrPublish(id)

AppReceived(c) == Notif(c, "APPLICATION", "Application received")

NewApplication(u) == Notif(u, "APPLICATION", "New application")

\* notification blocks of apply that still owe recruiter u its insert
BlocksFor(u) ==
    BagCardinality([r \in {x \in NotifyBlocks : x.recruiter_id = u} |-> pending[r]])

ApplySchedulesBoth ==
    /\ \A r \in PendingReqs :
           (ApplyInsert(r) /\ last'.code = 201) =>
               /\ r.job \in DOMAIN jobs /\ jobs[r.job].recruiter_id = r.recruiter_id
               /\ OwedOf(AppReceived(r.user))' = OwedOf(AppReceived(r.user)) + 1
               /\ BlocksFor(r.recruiter_id)' = BlocksFor(r.recruiter_id) + 1
               /\ notifications' = notifications
    /\ \A r \in PendingReqs :
           (r.op = "notify" /\ pending' = pending (-) One(r)) =>
               /\ OwedOf(NewApplication(r.recruiter_id))' = OwedOf(NewApplication(r.recruiter_id)) + 1
               /\ OwedOf(AppReceived(r.user))' = OwedOf(AppReceived(r.user))

\* C13: an apply answered 201 has issued the insert of 'Application
\* received' for the candidate and left a block that issues the insert of
\* 'New application' for the owner of the job, neither awaited by the
\* response; every insert issued, and every insert a block owes, ends as a row.
C13_ApplyNotifiesBoth ==
    /\ [][ApplySchedulesBoth]_vars
    /\ \A c \in Candidates : Delivered(AppReceived(c))
    /\ \A u \in Recruiters, k \in 1 .. MaxNotifs :
           (OwedOf(NewApplication(u)) + BlocksFor(u) >= k) ~> (RowsOf(NewApplication(u)) >= k)

\* both notifications of an application exist
C13_Witness ==
    \E a \in DOMAIN applications :
        /\ applications[a].job_id \in DOMAIN jobs
        /\ RowsOf(AppReceived(applications[a].candidate_id)) = 1
        /\ RowsOf(NewApplication(jobs[applications[a].job_id].recruiter_id)) = 1

StatusUpdateFor(c, t) == t.user_id = c /\ t.type = "APPLICATION_STATUS_UPDATE"

StatusChangeNotifies ==
    \A a \in DOMAIN applications \cap DOMAIN applications' :
        applications'[a].status # applications[a].status =>
            \E t \in BagToSet(tasks') :
                /\ StatusUpdateFor(applications[a].candidate_id, t)
                /\ CopiesIn(t, tasks') = CopiesIn(t, tasks) + 1

\* C14: a step that changes the status of an application issues the insert
\* of an APPLICATION_STATUS_UPDATE notification for its candidate, and such
\* an insert in flight ends as a row.
C14_StatusChangeNotifies ==
    /\ [][StatusChangeNotifies]_vars
    /\ \A c \in Candidates :
           (\E t \in BagToSet(tasks) : StatusUpdateFor(c, t))
               ~> (\E i \in DOMAIN notifications : StatusUpdateFor(c, notifications[i]))

\* the primary write of a request that detaches a notification block
PrimaryWrite(op) ==
    CASE op = "apply" -> nextAppId' = nextAppId + 1
      [] op = "create" -> nextJobId' = nextJobId + 1 /\ jobs'[nextJobId].status = "PUBLISHED"
      [] op = "publish" -> \E id \in Kept : /\ jobs[id].status = "DRAFT"
                                            /\ jobs'[id].status = "PUBLISHED"
      [] op = "createInterview" -> Len(interviews') = Len(interviews) + 1

ResponseNotBlocked ==
    \A op \in {"apply", "create", "publish", "createInterview"} :
        PrimaryWrite(op) =>
            /\ last'.op = op /\ last'.code \in {200, 201}
            /\ Scheduled' = Scheduled + (IF op = "apply" THEN 2 ELSE 1)
            /\ notifications' = notifications

\* C15: the step in which apply, create-as-PUBLISHED, publish or interview
\* creation makes its write also sends the success response, with the
\* notification inserts of the request still pending and no row inserted;
\* nothing obliges a pending insert ever to run.
C15_ResponseNotBlocked == [][ResponseNotBlocked]_vars

\* an interview was answered 201 while its notification is still in flight
C15_Witness ==
    /\ last = Resp("createInterview", 201)
    /\ \E t \in BagToSet(tasks) : t.type = "INTERVIEW"
    /\ \A i \in DOMAIN notifications : notifications[i].type # "INTERVIEW"

InsertFailed == BagCardinality(tasks') < BagCardinality(tasks) /\ notifications' = notifications

\* C16: a notification insert that fails is caught inside its block: nothing
\* leaves the block (no unhandled rejection, no response), and the rows the
\* request wrote stay as they are.
C16_FailureIsolated ==
    [][InsertFailed =>
          /\ last' = NoResp
          /\ UNCHANGED <<jobs, applications, interviews>>]_vars

\* the requests on jobs: each handler names itself in its response
JobRequest(op, u, id) ==
    CASE op = "patch" -> \E b \in PatchBodies : Patch(u, id, b)
      [] op = "publish" -> Publish(u, id)
      [] op = "close" -> Close(u, id)
      [] op = "reopen" -> Reopen(u, id)
      [] op = "delete" -> Delete(u, id)

ForeignJobRefused ==
    \A op \in {"patch", "publish", "close", "reopen", "delete"} :
        last'.op = op =>
            \A u \in Recruiters, id \in DOMAIN jobs :
                (jobs[id].recruiter_id # u /\ JobRequest(op, u, id)) => Rejected(op, 403)

ForeignApplicationRefused ==
    \A a \in DOMAIN applications :
        /\ last'.op = "patchApplication" =>
               \A u \in Recruiters, b \in [status : AppStatusInputs] :
                   (jobs[applications[a].job_id].recruiter_id # u /\ PatchApplication(u, a, b))
                       => Rejected("patchApplication", 403)
        /\ last'.op = "createInterview" =>
               \A u \in Recruiters, at \in ScheduledAtInputs :
                   (jobs[applications[a].job_id].recruiter_id # u /\ CreateInterview(u, a, at))
                       => Rejected("createInterview", 403)
        /\ last'.op = "getApplication" =>
               \A c \in Candidates \cup {4} :
                   (applications[a].candidate_id # c /\ GetApplication(c, a))
                       => Rejected("getApplication", 403)

ForeignNotificationRefused ==
    \A n \in DOMAIN notifications :
        /\ last'.op = "getNotification" =>
               \A u \in Users :
                   (notifications[n].user_id # u /\ GetNotification(u, n))
                       => Rejected("getNotification", 403)
        /\ last'.op = "markRead" =>
               \A u \in Users, now \in Times :
                   (notifications[n].user_id # u /\ MarkRead(u, n, now))
                       => Rejected("markRead", 403)

\* C17: a job PATCH, publish, close, reopen or delete by a recruiter who
\* does not own the job, an application PATCH or interview creation by a
\* recruiter who does not own the application's job, an application read by
\* another candidate and a notification read or mark-read by another user
\* are answered 403 with no body and change nothing.
C17_OwnershipChecked ==
    [][ForeignJobRefused /\ ForeignApplicationRefused /\ ForeignNotificationRefused]_vars

\* the PATCH of an application by a recruiter who does not own its job was
\* answered 403 and the application kept its status
C17_Witness ==
    /\ last = Resp("patchApplication", 403)
    /\ \E a \in DOMAIN applications : applications[a].status = "APPLIED"
    /\ interviews = <<>>

\* what the owner's mark-read of notification n at time `now` stores and returns
MarkedOnce(n, now) ==
    /\ notifications'[n].read_at =
           IF notifications[n].read_at = NULL THEN now ELSE notifications[n].read_at
    /\ last' = RespBody("markRead", 200, getNotificationById(notifications', n))
    /\ last'.body.read_at = notifications'[n].read_at
    /\ \A m \in DOMAIN notifications : m # n => notifications'[m] = notifications[m]

\* a notification in a response carries read = (read_at is not null)
ReadFlagDerived ==
    (last'.op \in {"getNotification", "markRead"} /\ last'.code = 200)
        => (last'.body.read <=> last'.body.read_at # NULL)

\* C18: the first mark-read by the owner sets read_at, a later one leaves
\* read_at as it is and returns the notification already read, and every
\* notification in a response has read equal to (read_at is not null).
C18_MarkReadIdempotent ==
    [][/\ last'.op = "markRead" =>
              \A n \in DOMAIN notifications, now \in Times :
                  MarkRead(notifications[n].user_id, n, now) => MarkedOnce(n, now)
       /\ ReadFlagDerived]_vars

\* a mark-read by the owner returned the notification read at time 1 while
\* another of the owner's notifications is still unread
C18_Witness ==
    /\ last.op = "markRead" /\ last.code = 200
    /\ last.body.read /\ last.body.read_at = 1
    /\ notifications[last.body.id].read_at = 1
    /\ \E m \in DOMAIN notifications : notifications[m].read_at = NULL

\* the bearer token is present, signed with the access key, not expired
\* and of the access kind
ValidAccess(env, token, now) ==
    /\ token # NoToken
    /\ token.key = env.JWT_SECRET
    /\ now < token.exp
    /\ token.typ = "access"

\* the role the gate of a route requires
RequiredRole(op) == IF op = "getNotification" THEN "CANDIDATE" ELSE "RECRUITER"

GateStep(op, env, token, now) ==
    CASE op = "create" -> \E st \in {"DRAFT", "PUBLISHED"} : AuthCreate(env, token, now, st)
      [] op = "publish" -> \E id \in JobIds : AuthPublish(env, token, now, id)
      [] op = "close" -> \E id \in JobIds : AuthClose(env, token, now, id)
      [] op = "getNotification" -> \E id \in NotifIds : AuthGetNotification(env, token, now, id)

GateRefuses(env, token, now) ==
    \A op \in {"create", "publish", "close", "getNotification"} :
        (last'.op = op /\ GateStep(op, env, token, now)) =>
            /\ ~ValidAccess(env, token, now) => Answer(Resp(op, 401))
            /\ (ValidAccess(env, token, now) /\ token.role # RequiredRole(op)) => Answer(Resp(op, 403))
            /\ (token # NoToken /\ token.typ = "refresh") => Answer(Resp(op, 401))

RefreshRefusesAccess(env, token, now) ==
    (/\ last'.op = "refresh"
     /\ token # NoToken
     /\ token.typ = "access"
     /\ \E exists \in BOOLEAN : Refresh(env, token, now, exists))
        => last' = Resp("refresh", 401)

\* C19: a gated request whose bearer token is absent, invalid, expired or
\* not of the access kind is answered 401, one with a valid access token of
\* another role is answered 403, and in both cases the handler does not run
\* (nothing is stored or scheduled, no row is answered); a refresh token as bearer
\* is answered 401 and an access token as refresh cookie is answered 401.
C19_AuthGate ==
    [][\A env \in Envs, token \in TokenInputs, now \in Clock :
           GateRefuses(env, token, now) /\ RefreshRefusesAccess(env, token, now)]_vars

\* POST /jobs with the valid access token of a candidate was answered 403
\* (the create handler itself never answers 403) and no job was created
C19_Witness ==
    /\ last = Resp("create", 403)
    /\ jobs = <<>>

\* the refresh cookie is present, signed with the refresh key, not expired
\* and of the refresh kind
ValidRefresh(env, token, now) ==
    /\ token # NoToken
    /\ token.key = env.REFRESH_SECRET
    /\ now < token.exp
    /\ token.typ = "refresh"

\* the response carries an access token the gate admits for the user and
\* sets a refresh cookie signed at this request
Refreshed(env, token, now) ==
    /\ last'.code = 200
    /\ ValidAccess(env, last'.body.accessToken, now)
    /\ last'.body.accessToken.sub = token.sub
    /\ last'.body.accessToken.role = roleOf(token.sub)
    /\ ValidRefresh(env, last'.body.cookie, now)
    /\ last'.body.cookie.sub = token.sub
    /\ last'.body.cookie.iat = now

\* C20: a refresh with a valid refresh token of an existing user returns a
\* new access token and sets a refresh cookie issued at this request; any
\* other refresh (no cookie, a token that is invalid, expired or of the
\* access kind, a user that no longer exists) is answered 401 with no
\* access token and no cookie.
C20_RefreshAllOrNothing ==
    [][last'.op = "refresh" =>
           \A env \in Envs, token \in TokenInputs, now \in Clock, exists \in BOOLEAN :
               Refresh(env, token, now, exists) =>
                   IF ValidRefresh(env, token, now) /\ exists
                   THEN Refreshed(env, token, now)
                   ELSE last' = Resp("refresh", 401)]_vars

\* a refresh at time 2 was answered 200 and set a cookie signed at time 2
\* (every valid token a request carries was signed earlier)
C20_Witness ==
    /\ last.op = "refresh" /\ last.code = 200
    /\ last.body.cookie.iat = 2
    /\ last.body.accessToken.typ = "access"

\* every application references a stored job, every interview a stored
\* application
RefIntegrity ==
    /\ \A a \in DOMAIN applications : applications[a].job_id \in DOMAIN jobs
    /\ \A i \in DOMAIN interviews : interviews[i].application_id \in DOMAIN applications

\* the delete of job id removed the job, its applications and their interviews
DeletedWhole(id) ==
    /\ last' = Resp("delete", 204)
    /\ id \notin DOMAIN jobs'
    /\ \A a \in DOMAIN applications : applications[a].job_id = id => a \notin DOMAIN applications'
    /\ \A i \in DOMAIN interviews' : interviews'[i].application_id \in DOMAIN applications'
    /\ Len(interviews') =
           Cardinality({i \in DOMAIN interviews :
               applications[interviews[i].application_id].job_id # id})

\* C22: the delete of a job by its owner succeeds whatever the status of the
\* job and removes the job, its applications and their interviews; after every
\* step every application references a stored job and every interview a
\* stored application.
C22_DeleteCascades ==
    [][/\ last'.op = "delete" =>
              \A id \in DOMAIN jobs :
                  Delete(jobs[id].recruiter_id, id) => DeletedWhole(id)
       /\ RefIntegrity']_vars

\* a job that had an application with an interview was deleted by its owner:
\* the three tables are empty and the ids have moved on
C22_Witness ==
    /\ last = Resp("delete", 204)
    /\ nextAppId > 1
    /\ jobs = <<>> /\ applications = <<>> /\ interviews = <<>>
    /\ \E n \in DOMAIN notifications : notifications[n].type = "INTERVIEW"

\* C27: an application row is inserted only for a job that is PUBLISHED when
\* the insert runs, whatever the owner does to the job between the status
\* check of the apply request and its insert.
C27_InsertOnlyIfPublished ==
    [][\A a \in DOMAIN applications' \ DOMAIN applications :
           /\ applications'[a].job_id \in DOMAIN jobs
           /\ jobs[applications'[a].job_id].status = "PUBLISHED"]_vars

\* every job a public read returned is stored as PUBLISHED
OnlyPublishedReturned ==
    (last'.op \in {"listJobs", "getPublishedJob", "listRecruiterJobs"} /\ last'.code = 200)
        => \A k \in DOMAIN last'.body :
               /\ last'.body[k].status = "PUBLISHED"
               /\ jobs[last'.body[k].id].status = "PUBLISHED"

\* a job that is not PUBLISHED is answered 404 by the read of one job
UnpublishedNotFound ==
    \A id \in DOMAIN jobs :
        (jobs[id].status # "PUBLISHED" /\ GetPublishedJob(id)) => last' = Resp("getPublishedJob", 404)

\* C30: GET /candidate/jobs, GET /candidate/jobs/:id and GET /recruiter/:id/jobs
\* return only jobs whose status is PUBLISHED; a job in another status is
\* answered 404 or left out of the list.
C30_OnlyPublishedVisible ==
    [][OnlyPublishedReturned /\ UnpublishedNotFound]_vars

\* the list of recruiter 1 came back without the recruiter's DRAFT job
C30_Witness ==
    /\ last.op = "listRecruiterJobs" /\ last.code = 200
    /\ last.body = <<>>
    /\ \E id \in DOMAIN jobs : jobs[id].recruiter_id = 1 /\ jobs[id].status = "DRAFT"

\* ------------------------------------------------------------------ C23
\* C23: no step writes a field other than status to a job whose stored
\* status at the time of the write is not DRAFT, also when a PATCH with
\* non-status fields is interleaved with a publish or a status PATCH of
\* the same job.
C23_FieldsOnlyWhileDraft ==
    [][\A id \in Kept :
          jobs[id].status # "DRAFT" => jobs'[id].title = jobs[id].title]_vars

\* ------------------------------------------------------------------ C28
PublishedRows ==
    {i \in DOMAIN notifications : notifications[i].title = "Job published"}

\* jobs that have made their one DRAFT-to-PUBLISHED transition (under
\* SpecPublish every job starts as a draft and none returns to DRAFT)
PublishedOnce == {id \in DOMAIN jobs : jobs[id].status # "DRAFT"}

\* C28: the 'Job published' notifications created by publish never
\* outnumber the DRAFT-to-PUBLISHED transitions, also when several publish
\* requests for the same DRAFT job are interleaved.
C28_NotifiedPerTransition ==
    Cardinality(PublishedRows) <= Cardinality(PublishedOnce)

\* ------------------------------------------------------------------ C29
EmailsUnique ==
    \A i, j \in DOMAIN users : users[i].email = users[j].email => i = j

\* C29: under any interleaving of register requests, at most one user row
\* exists per email, and a register request that creates no user is
\* refused by the schema or answers 409 EmailTaken, never 500.
C29_RegisterRace ==
    [][/\ EmailsUnique'
       /\ (last'.op = "register" /\ users' = users) => last'.code \in {400, 409}]_vars

\* ------------------------------------------------------------------ C21
\* C21: a refresh token that a successful refresh or a successful
\* change-password has superseded is rejected when it is presented to
\* /auth/refresh again.
C21_SupersededRejected ==
    [][\A token \in retired, now \in Clock :
          SessionRefresh(token, now) => last'.code = 401]_vars

\* ------------------------------------------------------------------ C24
\* rows in descending creation order: no row precedes one created after it
NewestFirst(rows) ==
    \A i, j \in DOMAIN rows : i < j => rows[i].created_at >= rows[j].created_at

\* C24: listing a user's notifications returns them newest first, after
\* any creations and mark-reads, and with unread_only it returns exactly
\* the user's notifications whose read_at is null.
C24_ListedNewestFirst ==
    [][\A u \in ListUsers, unread_only \in BOOLEAN :
          ListNotifications(u, unread_only) =>
              /\ NewestFirst(last'.body)
              /\ unread_only =>
                    {last'.body[k].id : k \in DOMAIN last'.body} =
                        {id \in DOMAIN notifications :
                            notifications[id].user_id = u /\ notifications[id].read_at = NULL}]_vars

\* the unread_only half of C24 alone
UnreadOnlyExact ==
    [][\A u \in ListUsers :
          ListNotifications(u, TRUE) =>
              {last'.body[k].id : k \in DOMAIN last'.body} =
                  {id \in DOMAIN notifications :
                      notifications[id].user_id = u /\ notifications[id].read_at = NULL}]_vars

HasSalaryField(doc) ==
    \E i \in DOMAIN doc :
        /\ TestHeader(doc[i], "Salary")
        /\ Len(doc[i]) >= 3 \/ i + 1 \in DOMAIN doc

\* C26: the extractor's result is sparse: a key is present only if the
\* field was found in the document; for the lines 'Job Title: Backend
\* Engineer' and 'Location: Remote' the result has that title, that
\* location and no salary key.
C26_SparseResult ==
    last.op = "autofill" =>
        LET doc == last.body.other_details.raw_text_preview
        IN /\ "salary" \in DOMAIN last.body => HasSalaryField(doc)
           /\ doc = <<<<Tok("header", "Job Title", <<>>), Tok("sep", ":", <<>>), Tok("word", "Backend", <<>>), Tok("word", "Engineer", <<>>)>>,
                      <<Tok("header", "Location", <<>>), Tok("sep", ":", <<>>), Tok("word", "Remote", <<>>)>>>> =>
                 /\ last.body.title = <<Tok("word", "Backend", <<>>), Tok("word", "Engineer", <<>>)>>
                 /\ last.body.location = <<Tok("word", "Remote", <<>>)>>
                 /\ "salary" \notin DOMAIN last.body

\* the example of C26 alone
SparseExample ==
    (/\ last.op = "autofill"
     /\ last.body.other_details.raw_text_preview =
            <<<<Tok("header", "Job Title", <<>>), Tok("sep", ":", <<>>), Tok("word", "Backend", <<>>), Tok("word", "Engineer", <<>>)>>,
              <<Tok("header", "Location", <<>>), Tok("sep", ":", <<>>), Tok("word", "Remote", <<>>)>>>>) =>
        /\ last.body.title = <<Tok("word", "Backend", <<>>), Tok("word", "Engineer", <<>>)>>
        /\ last.body.location = <<Tok("word", "Remote", <<>>)>>
        /\ DOMAIN last.body = {"title", "location", "remote_flexible", "other_details"}

====
